---- MODULE Spec2Model ----
(***************************************************************************)
(* A model of the loom front end and evaluator.                            *)
(*                                                                         *)
(*   SpecImport   the collect pass's module loader (collect_use_statement, *)
(*                analyze_module_file) driven by run_pipeline              *)
(*                                                                         *)
(* Every component has its own variables; a component's specification      *)
(* leaves the variables of the others at their idle values.                *)
(***************************************************************************)
EXTENDS Integers, Sequences, FiniteSets, TLC

VARIABLES
    \* ---- analyzer, module loading (core/src/analyzer/collect.rs) ----
    uses,           \* file id -> the targets of its `use` statements, in order
    analyzers,      \* the nested Analyzer instances, entry file's at the bottom
    modules,        \* Context.modules: the files whose ModuleInfo is cached
    loading_stack,  \* Context.loading_stack
    phase,          \* "collect" while the entry file is analysed, then "done"
    \* ---- analyzer, resolve pass (core/src/analyzer/resolve.rs) ----
    tables,         \* Analyzer.tables: class id -> TableInfo (parent, fields)
    todo,           \* resolve_hierarchy: the table ids its loop has not visited
    resolved,       \* resolve_hierarchy's `resolved` set
    visiting,       \* resolve_hierarchy's `visiting` set
    calls,          \* the resolve_table calls suspended at their recursive call
    rctl,           \* the resolve_table call being entered, or its result
    rerrors,        \* the diagnostics the resolve pass and the check pass reported
    analysed_file,  \* Analyzer.current_file_id of the analyzer that is running
    module_tables,  \* Context.modules: file id -> the tables of its ModuleInfo
    \* ---- lexer (core/src/lexer.rs) ----
    input,          \* the lines the source text was written as
    src,            \* Lexer.src: the characters of the source text
    position,       \* Lexer.chars: index of the next character (Len + 1 at end)
    indent_stack,   \* Lexer.indent_stack
    pending_tokens, \* Lexer.pending_tokens
    tokens,         \* the kinds of the tokens next_token has returned so far
    \* ---- evaluator (compiler/src/interpreter.rs, interpreter/evaluate.rs) ----
    program,        \* module_programs, and the registries built from them
    envs,           \* the Environment objects, by handle (1 is builtins)
    instances,      \* the Instance objects, by handle
    environment,    \* Interpreter.environment (a handle)
    globals,        \* Interpreter.globals (a handle)
    current_file_id,\* Interpreter.current_file_id
    module_cache,   \* Interpreter.module_cache: file id -> env of its Module
    kont,           \* the suspended evaluator calls, innermost last
    ctl,            \* what the evaluator does next, or the result it returns
    cur_call,       \* the call the running code belongs to (0: top level)
    ncalls,         \* calls made so far
    last_call,      \* the call that completed last: handles before and after
    last_loop,      \* the loop that completed last and its result
    cyclic_use,     \* the last `use` bound to a module that was still loading
    \* ---- analyzer, types and check pass (core/src/analyzer/types.rs) ----
    hierarchy,      \* class id -> the class its TableInfo names as parent (0: none)
    query,          \* the call made of the checker: the function and its arguments
    answer,         \* what the call returned and the diagnostics it reported
    \* ---- evaluator, for loops (compiler/src/interpreter/evaluate.rs) ----
    arrays,         \* the array cells (Rc<RefCell<Vec<Value>>>), by handle
    scope,          \* main's variables and the loop's iterator: name -> value
    loop,           \* the for loop: its program, eval_for's position, the last result
    iterated,       \* the values the iterator was bound to, in order
    stdout,         \* the integers print has written
    \* ---- evaluator, method lookup (compiler/src/interpreter/evaluate/field_access.rs) ----
    prototypes,     \* class id -> the class its definition names as prototype (0: none)
    defines,        \* the classes whose definition holds the method looked up
    class_names,    \* the module environment: class name -> the class of the Table bound to it
    walk,           \* find_method_in_chain: the class it is at and the classes examined
    \* ---- parser (compiler/src/parser.rs) ----
    token_stream,   \* the tokens of the file, EOF left out
    parser,         \* parse_program: the position in the stream, the definitions, the errors, the result
    \* ---- evaluator, RefCell borrows (compiler/src/interpreter/evaluate.rs) ----
    borrows,        \* the RefCell borrow flags: cell -> shared borrows held, -1 when mutably borrowed
    cell_values,    \* what the cells hold: the environment's bindings, the instance's fields, the array
    running,        \* the statement evaluated: its expressions, eval_assignment's or eval_for's position, the result
    \* ---- driver (core/src/driver.rs), from parsing to evaluation ----
    imports,        \* file id -> the targets of its use statements, in order
    defect,         \* the one flaw of the program's sources: the file and what is wrong with it
    driver,         \* run_pipeline: the stage, the analyzers, Context.modules, the passes run so far, the evaluator's loads
    \* ---- check pass: scopes ----
    checked_program,\* the Program given to check_program
    scopes,         \* ScopeManager.scopes, innermost last
    check_stack,    \* the check pass's calls in progress, innermost last
    scope_panic     \* exit_scope panicked

importVars == <<uses, analyzers, modules, loading_stack, phase>>
resolveVars == <<tables, todo, resolved, visiting, calls, rctl, rerrors,
                 analysed_file, module_tables>>

lexVars == <<input, src, position, indent_stack, pending_tokens, tokens>>

evalVars == <<program, envs, instances, environment, globals, current_file_id,
              module_cache, kont, ctl, cur_call, ncalls, last_call, last_loop,
              cyclic_use>>

checkVars == <<hierarchy, query, answer>>

loopVars == <<arrays, scope, loop, iterated, stdout>>

lookupVars == <<prototypes, defines, class_names, walk>>

parseVars == <<token_stream, parser>>

borrowVars == <<borrows, cell_values, running>>

pipelineVars == <<imports, defect, driver>>

scopeVars == <<checked_program, scopes, check_stack, scope_panic>>

vars == <<importVars, resolveVars, lexVars, evalVars, checkVars, loopVars,
          lookupVars, parseVars, borrowVars, pipelineVars, scopeVars>>

\* What the actions of one component leave alone.
notImport == <<resolveVars, lexVars, evalVars, checkVars, loopVars,
               lookupVars, parseVars, borrowVars, pipelineVars, scopeVars>>
notResolve == <<importVars, lexVars, evalVars, checkVars, loopVars,
                lookupVars, parseVars, borrowVars, pipelineVars, scopeVars>>
notLex == <<importVars, resolveVars, evalVars, checkVars, loopVars,
            lookupVars, parseVars, borrowVars, pipelineVars, scopeVars>>
notEval == <<importVars, resolveVars, lexVars, checkVars, loopVars,
             lookupVars, parseVars, borrowVars, pipelineVars, scopeVars>>
notCheck == <<importVars, resolveVars, lexVars, evalVars, loopVars,
              lookupVars, parseVars, borrowVars, pipelineVars, scopeVars>>
notLoop == <<importVars, resolveVars, lexVars, evalVars, checkVars,
             lookupVars, parseVars, borrowVars, pipelineVars, scopeVars>>
notLookup == <<importVars, resolveVars, lexVars, evalVars, checkVars, loopVars,
               parseVars, borrowVars, pipelineVars, scopeVars>>
notParse == <<importVars, resolveVars, lexVars, evalVars, checkVars, loopVars, lookupVars,
              borrowVars, pipelineVars, scopeVars>>
notBorrow == <<importVars, resolveVars, lexVars, evalVars, checkVars, loopVars, lookupVars, parseVars,
               pipelineVars, scopeVars>>
notPipeline == <<importVars, resolveVars, lexVars, evalVars, checkVars, loopVars, lookupVars, parseVars, borrowVars,
                 scopeVars>>
notScope == <<importVars, resolveVars, lexVars, evalVars, checkVars, loopVars, lookupVars, parseVars, borrowVars, pipelineVars>>

(***************************************************************************)
(* Helpers                                                                 *)
(***************************************************************************)
SeqsUpTo(S, n) == UNION {[1..k -> S] : k \in 0..n}

RECURSIVE CountOf(_, _)
CountOf(s, x) ==
    IF s = <<>> THEN 0
    ELSE (IF Head(s) = x THEN 1 ELSE 0) + CountOf(Tail(s), x)

Top(s) == s[Len(s)]
Pop(s) == SubSeq(s, 1, Len(s) - 1)
SetTop(s, x) == [s EXCEPT ![Len(s)] = x]

(***************************************************************************)
(* Idle values: a component that a specification does not run              *)
(***************************************************************************)
ImportIdle ==
    /\ uses = <<>>
    /\ analyzers = <<>>
    /\ modules = {}
    /\ loading_stack = {}
    /\ phase = "idle"

ResolveIdle ==
    /\ tables = <<>>
    /\ todo = {}
    /\ resolved = {}
    /\ visiting = {}
    /\ calls = <<>>
    /\ rctl = [op |-> "off", id |-> 0, ok |-> TRUE]
    /\ rerrors = <<>>
    /\ analysed_file = 0
    /\ module_tables = <<>>

LexIdle ==
    /\ input = <<>>
    /\ src = <<>>
    /\ position = 0
    /\ indent_stack = <<>>
    /\ pending_tokens = <<>>
    /\ tokens = <<>>

EvalIdle ==
    /\ program = [body |-> 0]
    /\ envs = <<>>
    /\ instances = <<>>
    /\ environment = 0
    /\ globals = 0
    /\ current_file_id = 0
    /\ module_cache = <<>>
    /\ kont = <<>>
    /\ ctl = [m |-> "off"]
    /\ cur_call = 0
    /\ ncalls = 0
    /\ last_call = [kind |-> "none"]
    /\ last_loop = [kind |-> "none"]
    /\ cyclic_use = [file |-> 0]

CheckIdle ==
    /\ hierarchy = <<>>
    /\ query = [op |-> "off"]
    /\ answer = [done |-> FALSE]

LoopIdle ==
    /\ arrays = <<>>
    /\ scope = <<>>
    /\ loop = [state |-> "off"]
    /\ iterated = <<>>
    /\ stdout = <<>>

LookupIdle ==
    /\ prototypes = <<>>
    /\ defines = {}
    /\ class_names = <<>>
    /\ walk = [state |-> "off"]

ParseIdle ==
    /\ token_stream = <<>>
    /\ parser = [state |-> "off"]

BorrowIdle ==
    /\ borrows = <<>>
    /\ cell_values = <<>>
    /\ running = [stage |-> "off"]

PipelineIdle ==
    /\ imports = <<>>
    /\ defect = [file |-> 0]
    /\ driver = [stage |-> "off"]

ScopeIdle ==
    /\ checked_program = <<>>
    /\ scopes = <<>>
    /\ check_stack = <<>>
    /\ scope_panic = FALSE

(***************************************************************************)
(* Module loading in the collect pass                                      *)
(***************************************************************************)
\* Bounds of the analysed programs.
MaxUses == 3        \* `use` statements in the whole program

\* The source files: 1 is the entry file handed to run_pipeline.
FileIds == {1, 2, 3}
EntryFile == 1
\* A `use` whose path resolve_module_path finds no file for.
NoFile == 0
Targets == FileIds \cup {NoFile}
\* The files of a program: the entry file, a library, a second library that
\* imports the first back, and a file the driver registered no AST for.
LibFile == EntryFile + 1
BackFile == EntryFile + 2
LostFile == EntryFile + 3

\* The `use` statements of file f among the program's (owner, target) pairs.
RECURSIVE UsesOf(_, _)
UsesOf(pairs, f) ==
    IF pairs = <<>> THEN <<>>
    ELSE (IF Head(pairs)[1] = f THEN <<Head(pairs)[2]>> ELSE <<>>)
         \o UsesOf(Tail(pairs), f)

\* Analyzer::new: a fresh analyzer for one file, nothing collected yet.
\* pc is the index of the next top-level item collect_program will visit.
NewAnalyzer(f) == [file |-> f, pc |-> 1, errors |-> <<>>, scope |-> {}]

\* Analyzer::report
Report(a, kind) == [a EXCEPT !.errors = Append(@, kind)]

\* ScopeManager::define with allow_shadow = false, as collect_use_statement
\* calls it for the import name (the last path segment: the target itself).
DefineImport(a, name) ==
    IF name \in a.scope
    THEN Report(a, "DuplicateDefinition")
    ELSE [a EXCEPT !.scope = @ \cup {name}]

\* A mutant of ExtendErrors: the sub-analyzer's diagnostics are dropped.
ExtendErrors_dropped(parent, sub) == parent

\* analyze_module_file: self.errors.extend(sub_analyzer.errors)
ExtendErrors(parent, sub) == [parent EXCEPT !.errors = @ \o sub.errors]

\* A mutant of LoadEnded: the path stays on the stack when the module failed.
LoadEnded_leak(stack, path, ok) == IF ok THEN stack \ {path} ELSE stack

\* collect_use_statement: self.ctx.loading_stack.remove(&abs_path), reached
\* whatever analyze_module_file returned.
LoadEnded(stack, path, ok) == stack \ {path}

ImportInit ==
    /\ \E pairs \in SeqsUpTo(FileIds \X Targets, MaxUses) :
          uses = [f \in FileIds |-> UsesOf(pairs, f)]
    /\ analyzers = <<NewAnalyzer(EntryFile)>>
    /\ modules = {}
    /\ loading_stack = {}
    /\ phase = "collect"
    /\ ResolveIdle
    /\ LexIdle
    /\ EvalIdle
    /\ CheckIdle
    /\ LoopIdle
    /\ LookupIdle
    /\ ParseIdle
    /\ BorrowIdle
    /\ PipelineIdle
    /\ ScopeIdle

CurrentUse == uses[Top(analyzers).file][Top(analyzers).pc]
HasPendingUse ==
    /\ phase = "collect"
    /\ Top(analyzers).pc <= Len(uses[Top(analyzers).file])

Advance(a) == [a EXCEPT !.pc = @ + 1]

\* collect_use_statement up to its recursive call: the path does not resolve.
UseNotFound ==
    /\ HasPendingUse
    /\ CurrentUse = NoFile
    /\ analyzers' = SetTop(analyzers, Advance(Report(Top(analyzers), "ModuleNotFound")))
    /\ UNCHANGED <<uses, modules, loading_stack, phase>>

\* collect_use_statement: the module is cached; only the name is bound.
UseCached ==
    /\ HasPendingUse
    /\ CurrentUse \in modules
    /\ analyzers' = SetTop(analyzers, Advance(DefineImport(Top(analyzers), CurrentUse)))
    /\ UNCHANGED <<uses, modules, loading_stack, phase>>

\* collect_use_statement: the module is being loaded: report and return.
UseCycle ==
    /\ HasPendingUse
    /\ CurrentUse \in FileIds \ modules
    /\ CurrentUse \in loading_stack
    /\ analyzers' = SetTop(analyzers, Advance(Report(Top(analyzers), "CircularDependency")))
    /\ UNCHANGED <<uses, modules, loading_stack, phase>>

\* collect_use_statement: a cache miss starts the nested analysis;
\* analyze_module_file parses the file and runs collect_program on it.
UseLoad ==
    /\ HasPendingUse
    /\ CurrentUse \in FileIds \ modules
    /\ CurrentUse \notin loading_stack
    /\ loading_stack' = loading_stack \cup {CurrentUse}
    /\ analyzers' = Append(analyzers, NewAnalyzer(CurrentUse))
    /\ UNCHANGED <<uses, modules, phase>>

\* The nested analyzer has collected its last item: analyze_module_file
\* returns (None when it reported anything) and collect_use_statement goes on
\* in the importing analyzer: pop the stack, cache the module, bind the name.
ModuleAnalyzed ==
    /\ phase = "collect"
    /\ Len(analyzers) > 1
    /\ Top(analyzers).pc > Len(uses[Top(analyzers).file])
    /\ LET sub      == Top(analyzers)
           ok       == sub.errors = <<>>
           importer == analyzers[Len(analyzers) - 1]
           merged   == IF ok THEN importer ELSE ExtendErrors(importer, sub)
       IN /\ loading_stack' = LoadEnded(loading_stack, sub.file, ok)
          /\ modules' = IF ok THEN modules \cup {sub.file} ELSE modules
          /\ analyzers' = SetTop(Pop(analyzers),
                                 Advance(DefineImport(merged, sub.file)))
    /\ UNCHANGED <<uses, phase>>

\* run_pipeline: collect_program of the entry file has returned; resolve and
\* check follow and the diagnostics are formatted.
EntryAnalyzed ==
    /\ phase = "collect"
    /\ Len(analyzers) = 1
    /\ Top(analyzers).pc > Len(uses[EntryFile])
    /\ phase' = "done"
    /\ UNCHANGED <<uses, analyzers, modules, loading_stack>>

ImportNext ==
    \/ UseNotFound /\ UNCHANGED notImport
    \/ UseCached /\ UNCHANGED notImport
    \/ UseCycle /\ UNCHANGED notImport
    \/ UseLoad /\ UNCHANGED notImport
    \/ ModuleAnalyzed /\ UNCHANGED notImport
    \/ EntryAnalyzed /\ UNCHANGED notImport

SpecImport == ImportInit /\ [][ImportNext]_vars

\* The diagnostics run_pipeline ends with.
FinalErrors == analyzers[1].errors

\* The loads in progress: every analyzer above the entry file's.
LoadsInProgress == {analyzers[i].file : i \in 2..Len(analyzers)}

\* The entry file A (1) has one `use B` and B (2) one `use A`; neither
\* imports itself, and whatever else they import does not import in turn.
TwoFileCycle ==
    /\ CountOf(uses[1], 2) = 1
    /\ CountOf(uses[2], 1) = 1
    /\ CountOf(uses[1], 1) = 0
    /\ CountOf(uses[2], 2) = 0
    /\ uses[3] = <<>>

\* C1: analysing an entry file A that imports B, where B imports A, ends with
\* exactly one CircularDependency diagnostic (and the analysis ends: no pass
\* is left half-way).
C1_CycleReportedOnce ==
    (phase = "done" /\ TwoFileCycle)
        => CountOf(FinalErrors, "CircularDependency") = 1

C1_Witness ==
    /\ phase = "done"
    /\ TwoFileCycle
    /\ CountOf(FinalErrors, "CircularDependency") = 1

\* C2: loading_stack holds exactly the paths of the loads in progress, after
\* every step of every use statement, and is empty when the entry file's
\* analysis has finished.
C2_LoadingStackBrackets ==
    /\ loading_stack = LoadsInProgress
    /\ phase = "done" => loading_stack = {}

\* A load that failed on a cycle deeper in the chain has ended and the entry
\* file's analysis has finished.
C2_Witness ==
    /\ phase = "done"
    /\ CountOf(FinalErrors, "CircularDependency") > 0
    /\ loading_stack = {}

(***************************************************************************)
(* The resolve pass: resolve_hierarchy and resolve_table                   *)
(***************************************************************************)
MaxClasses == 3     \* classes declared in the analysed file

ClassIds == 1..MaxClasses
\* A class name that the file does not declare.
UndeclaredClass == 0
\* The field name that every class but the first declares itself.
SharedField == 0

(***************************************************************************)
(* The lexer: next_token and handle_newline                                *)
(***************************************************************************)
MaxLines == 4       \* lines of the source text

\* The indentation widths of the lines, in spaces.
IndentWidths == {0, 1, 2}
\* A line is an identifier, nothing, a `//` comment or a `#` comment, after
\* its indentation.
LineKinds == {"code", "blank", "slash", "hash"}
Lines == [indent : IndentWidths, kind : LineKinds]

RECURSIVE Spaces(_)
Spaces(n) == IF n = 0 THEN <<>> ELSE <<" ">> \o Spaces(n - 1)

LineText(l) ==
    Spaces(l.indent) \o
    CASE l.kind = "code" -> <<"a">>
      [] l.kind = "blank" -> <<>>
      [] l.kind = "slash" -> <<"/", "/", "a">>
      [] l.kind = "hash" -> <<"#", "a">>

\* The text of the lines, "\n" between them and, if final_newline, after
\* the last one.
RECURSIVE Render(_, _)
Render(ls, final_newline) ==
    IF ls = <<>> THEN <<>>
    ELSE LineText(Head(ls))
         \o (IF Len(ls) > 1 \/ final_newline THEN <<"\n">> ELSE <<>>)
         \o Render(Tail(ls), final_newline)

\* Lexer::new
LexInit ==
    /\ \E ls \in SeqsUpTo(Lines, MaxLines) \ {<<>>}, nl \in BOOLEAN :
          /\ input = [lines |-> ls, final_newline |-> nl]
          /\ src = Render(ls, nl)
    /\ position = 1
    /\ indent_stack = <<0>>
    /\ pending_tokens = <<>>
    /\ tokens = <<>>
    /\ ImportIdle
    /\ ResolveIdle
    /\ EvalIdle
    /\ CheckIdle
    /\ LoopIdle
    /\ LookupIdle
    /\ ParseIdle
    /\ BorrowIdle
    /\ PipelineIdle
    /\ ScopeIdle

\* self.chars.peek(): the character at p, "" for None.
peek(p) == IF p <= Len(src) THEN src[p] ELSE ""

\* advance(): past the character at p, if there is one.
advance(p) == IF p <= Len(src) THEN p + 1 ELSE p

RECURSIVE skip_horizontal_whitespace(_)
skip_horizontal_whitespace(p) ==
    IF peek(p) \in {" ", "\t", "\r"}
    THEN skip_horizontal_whitespace(advance(p))
    ELSE p

RECURSIVE SkipToLineEnd(_)
SkipToLineEnd(p) ==
    IF peek(p) \in {"\n", ""} THEN p ELSE SkipToLineEnd(advance(p))

\* skip_comment_line: two characters are consumed whatever they are, then
\* everything up to the next "\n".
skip_comment_line(p) == SkipToLineEnd(advance(advance(p)))

\* handle_newline's first loop: [spaces, pos] after the indentation at p.
RECURSIVE CountIndent(_, _)
CountIndent(p, n) ==
    IF peek(p) = " " THEN CountIndent(advance(p), n + 1)
    ELSE IF peek(p) = "\t" THEN CountIndent(advance(p), n + 4)
    ELSE [spaces |-> n, pos |-> p]

LexResult(kind, p, stack, pending) ==
    [kind |-> kind, pos |-> p, stack |-> stack, pending |-> pending]

\* handle_newline's `while let Some(&top) = self.indent_stack.last()` loop.
RECURSIVE DedentLoop(_, _, _, _)
DedentLoop(p, stack, pending, indent_spaces) ==
    IF stack # <<>> /\ Top(stack) > indent_spaces
    THEN LET popped == Pop(stack)
         IN IF Top(popped) > indent_spaces
            THEN DedentLoop(p, popped, Append(pending, "Dedent"), indent_spaces)
            ELSE IF Top(popped) = indent_spaces
            THEN LexResult("Dedent", p, popped, pending)
            ELSE LexResult("ERROR", p, popped, pending)
    ELSE LexResult("ERROR", p, stack, pending)

IndentGrows_or_same(indent_spaces, current_indent) == indent_spaces >= current_indent

\* handle_newline pushes a level only when the line is indented deeper than
\* the level on top of the stack.
IndentGrows(indent_spaces, current_indent) == indent_spaces > current_indent

RECURSIVE handle_newline(_, _, _)
handle_newline(p, stack, pending) ==
    LET ind == CountIndent(p, 0)
        q == ind.pos
        indent_spaces == ind.spaces
    IN IF peek(q) = "\n"
       THEN handle_newline(advance(q), stack, pending)
       ELSE IF peek(q) = "/" /\ peek(q + 1) = "/"
       THEN handle_newline(skip_comment_line(q), stack, pending)
       ELSE IF IndentGrows(indent_spaces, Top(stack))
       THEN LexResult("Indent", q, Append(stack, indent_spaces), pending)
       ELSE IF indent_spaces < Top(stack)
       THEN DedentLoop(q, stack, pending, indent_spaces)
       ELSE LexResult("Newline", q, stack, pending)

RECURSIVE scan_identifier(_)
scan_identifier(p) == IF peek(p) = "a" THEN scan_identifier(advance(p)) ELSE p

\* next_token, from its entry to the token it returns.
RECURSIVE next_token(_, _, _)
next_token(p0, stack, pending) ==
    IF pending # <<>>
    THEN LexResult(Top(pending), p0, stack, Pop(pending))
    ELSE LET p == skip_horizontal_whitespace(p0)
             c == peek(p)
         IN IF c = "" THEN
               IF Len(stack) > 1
               THEN LexResult("Dedent", p, Pop(stack), pending)
               ELSE LexResult("EOF", p, stack, pending)
            ELSE IF c = "\n" THEN handle_newline(advance(p), stack, pending)
            ELSE IF c = "#" THEN next_token(skip_comment_line(p), stack, pending)
            ELSE IF c = "a"
            THEN LexResult("Identifier", scan_identifier(advance(p)), stack, pending)
            ELSE IF c = "/"
            THEN LexResult("Slash", advance(p), stack, pending)
            ELSE LexResult("ERROR", advance(p), stack, pending)

\* What a next_token call leaves behind.
Emit(r) ==
    /\ tokens' = Append(tokens, r.kind)
    /\ position' = r.pos
    /\ indent_stack' = r.stack
    /\ pending_tokens' = r.pending
    /\ UNCHANGED <<input, src>>

Lexing == IF tokens = <<>> THEN TRUE ELSE Top(tokens) # "EOF"
NextChar == peek(skip_horizontal_whitespace(position))

\* next_token returns a queued Dedent.
LexPending ==
    /\ Lexing
    /\ pending_tokens # <<>>
    /\ Emit(next_token(position, indent_stack, pending_tokens))

\* next_token at the end of the text: a Dedent per open level, then EOF.
LexEnd ==
    /\ Lexing
    /\ pending_tokens = <<>>
    /\ NextChar = ""
    /\ Emit(next_token(position, indent_stack, pending_tokens))

\* next_token at a line break: handle_newline decides the layout token.
LexNewline ==
    /\ Lexing
    /\ pending_tokens = <<>>
    /\ NextChar = "\n"
    /\ Emit(next_token(position, indent_stack, pending_tokens))

\* next_token at a `#`: the comment is skipped and the next token returned.
LexComment ==
    /\ Lexing
    /\ pending_tokens = <<>>
    /\ NextChar = "#"
    /\ Emit(next_token(position, indent_stack, pending_tokens))

\* next_token at any other character: an ordinary token.
LexOrdinary ==
    /\ Lexing
    /\ pending_tokens = <<>>
    /\ NextChar \notin {"", "\n", "#"}
    /\ Emit(next_token(position, indent_stack, pending_tokens))

LexNext ==
    \/ LexPending /\ UNCHANGED notLex
    \/ LexEnd /\ UNCHANGED notLex
    \/ LexNewline /\ UNCHANGED notLex
    \/ LexComment /\ UNCHANGED notLex
    \/ LexOrdinary /\ UNCHANGED notLex

SpecLex == LexInit /\ [][LexNext]_vars

\* The indentation widths of the lines that hold code, in order.
RECURSIVE CodeIndents(_)
CodeIndents(ls) ==
    IF ls = <<>> THEN <<>>
    ELSE (IF Head(ls).kind = "code" THEN <<Head(ls).indent>> ELSE <<>>)
         \o CodeIndents(Tail(ls))

RECURSIVE PopTo(_, _)
PopTo(stack, n) == IF Top(stack) > n THEN PopTo(Pop(stack), n) ELSE stack

\* Consistent indentation, by the layout rule alone: every line of code is
\* indented deeper than the block it follows, or exactly as one of the
\* blocks that are open.
RECURSIVE Consistent(_, _)
Consistent(open, indents) ==
    IF indents = <<>> THEN TRUE
    ELSE LET n == Head(indents)
         IN IF n > Top(open) THEN Consistent(Append(open, n), Tail(indents))
            ELSE /\ \E i \in 1..Len(open) : open[i] = n
                 /\ Consistent(PopTo(open, n), Tail(indents))

\* A well-formed input: its code starts at column 0 and is consistently
\* indented; blank lines and comment lines are not looked at.
WellFormed ==
    LET indents == CodeIndents(input.lines)
    IN /\ indents # <<>> => Head(indents) = 0
       /\ Consistent(<<0>>, indents)

\* The number of tokens of one kind among the first k tokens returned.
RECURSIVE KindCount(_, _)
KindCount(kind, k) ==
    IF k = 0 THEN 0
    ELSE (IF tokens[k] = kind THEN 1 ELSE 0) + KindCount(kind, k - 1)

\* C10: for a well-formed input, at every Newline token the Indent tokens
\* returned so far are at least as many as the Dedent tokens, and when EOF
\* is returned the two counts are equal.
C10_LayoutBalance ==
    WellFormed =>
        /\ \A k \in 1..Len(tokens) :
              tokens[k] = "Newline" => KindCount("Indent", k) >= KindCount("Dedent", k)
        /\ (~Lexing) =>
              KindCount("Indent", Len(tokens)) = KindCount("Dedent", Len(tokens))

(***************************************************************************)
(* The evaluator: values, results and programs                             *)
(***************************************************************************)
MaxEnvs == 40       \* Environment objects a run may create

\* ---- Value (interpreter/value.rs) ----
Val(t) == [t |-> t, n |-> 0, m |-> 0, f |-> 0, c |-> "", s |-> "", e |-> 0]
Unit == Val("Unit")
Nil == Val("Nil")
IntV(n) == [Val("Int") EXCEPT !.n = n]
BoolV(b) == [Val("Bool") EXCEPT !.n = IF b THEN 1 ELSE 0]
Range(start, end) == [Val("Range") EXCEPT !.n = start, !.m = end]
NativeFunction(name) == [Val("NativeFunction") EXCEPT !.s = name]
Function(file, name, env) == [Val("Function") EXCEPT !.f = file, !.s = name, !.e = env]
Module(file, env) == [Val("Module") EXCEPT !.f = file, !.e = env]
Table(file, name) == [Val("Table") EXCEPT !.f = file, !.c = name]
Instance(handle) == [Val("Instance") EXCEPT !.n = handle]
BoundMethod(handle, file, class, name, def_env) ==
    [Val("BoundMethod") EXCEPT !.n = handle, !.f = file, !.c = class,
                               !.s = name, !.e = def_env]

\* ---- EvalResult (interpreter.rs) ----
Ok(v) == [t |-> "Ok", v |-> v, err |-> ""]
Return(v) == [t |-> "Return", v |-> v, err |-> ""]
Err(kind) == [t |-> "Err", v |-> Unit, err |-> kind]
Break == [t |-> "Break", v |-> Unit, err |-> ""]
Continue == [t |-> "Continue", v |-> Unit, err |-> ""]

\* ---- ExpressionData (ast) ----
\* An identifier carries the file it is written in.
Lit(v) == [k |-> "Literal", v |-> v]
Id(file, name) == [k |-> "Identifier", file |-> file, name |-> name]
FieldAccess(target, field) == [k |-> "FieldAccess", target |-> target, field |-> field]
Call(callee, args) == [k |-> "Call", callee |-> callee, args |-> args]
Assign(name, value) == [k |-> "Assign", name |-> name, value |-> value]
VarDef(name, init) == [k |-> "VariableDefinition", name |-> name, init |-> init]
If(cond, then_block) == [k |-> "If", cond |-> cond, then_block |-> then_block]
While(cond, body) == [k |-> "While", cond |-> cond, body |-> body]
For(iterator, iterable, body) ==
    [k |-> "For", iterator |-> iterator, iterable |-> iterable, body |-> body]
ReturnValue(value) == [k |-> "Return", has_value |-> TRUE, value |-> value]
ReturnUnit == [k |-> "Return", has_value |-> FALSE]
BreakExpr == [k |-> "Break"]
ContinueExpr == [k |-> "Continue"]

\* ---- TopLevelItem (ast) ----
UseItem(target) == [k |-> "Use", target |-> target]
FieldItem(name, init) == [k |-> "Field", name |-> name, init |-> init]
FunctionItem(name, params, body) ==
    [k |-> "Function", name |-> name, params |-> params, body |-> body]
TableItem(name, fields, methods) ==
    [k |-> "Table", name |-> name, fields |-> fields, methods |-> methods]

\* bind_module binds a module under the last segment of its path.
ModuleName(file) ==
    CASE file = EntryFile -> "a"
      [] file = LibFile -> "b"
      [] file = BackFile -> "c"
      [] OTHER -> "d"

\* The bodies the library's function h and its method T.m are given.
CalleeBodies ==
    << <<Id(LibFile, "g")>>,
       <<ReturnValue(Id(LibFile, "g"))>>,
       <<While(Lit(BoolV(TRUE)),
               <<If(Lit(BoolV(TRUE)), <<ReturnValue(Lit(IntV(7)))>>)>>)>>,
       <<BreakExpr>>,
       <<ContinueExpr>>,
       <<Id(LibFile, "nothing")>>,
       <<While(Lit(BoolV(TRUE)), <<BreakExpr>>), Id(LibFile, "g")>>,
       <<For("i", Lit(Range(0, 2)), <<ContinueExpr>>), ReturnUnit>>,
       <<FieldAccess(Id(LibFile, "a"), "g")>>,
       <<VarDef("g", Lit(IntV(9))), Assign("k", Id(LibFile, "g")), Id(LibFile, "k")>>,
       <<VarDef("k", Lit(IntV(1))),
         While(Lit(BoolV(TRUE)),
               <<If(Lit(BoolV(TRUE)),
                    <<Assign("k", Lit(IntV(8))), Assign("g", Lit(IntV(8)))>>),
                 BreakExpr>>),
         Id(LibFile, "k")>> >>

\* The calls the entry file makes.
CallKinds ==
    {"function", "arity", "method", "constructor", "nested", "native", "notcallable",
     "own_constructor"}
LibMember(name) == FieldAccess(Id(EntryFile, "b"), name)
CallOf(kind) ==
    CASE kind = "function" -> Call(LibMember("h"), <<>>)
      [] kind = "arity" -> Call(LibMember("h"), <<Lit(IntV(1))>>)
      [] kind = "method" -> Call(FieldAccess(Call(LibMember("T"), <<>>), "m"), <<>>)
      [] kind = "constructor" -> Call(LibMember("T"), <<>>)
      [] kind = "nested" -> Call(Id(EntryFile, "f"), <<>>)
      [] kind = "native" -> Call(Id(EntryFile, "print"), <<Lit(IntV(1))>>)
      [] kind = "notcallable" -> Call(Id(EntryFile, "g"), <<>>)
      [] kind = "own_constructor" -> Call(Id(EntryFile, "Point"), <<>>)

\* Where in main's body the call stands.
CallShapes ==
    {"plain", "while_body", "for_body", "while_cond", "for_iterable",
     "nested_loops", "return"}
MainBody(shape, call) ==
    CASE shape = "plain" ->
            <<VarDef("g", Lit(IntV(5))), call, Id(EntryFile, "g")>>
      [] shape = "while_body" ->
            <<While(Lit(BoolV(TRUE)), <<call, BreakExpr>>), Lit(IntV(1))>>
      [] shape = "for_body" ->
            <<For("i", Lit(Range(0, 2)), <<call>>), Lit(IntV(1))>>
      [] shape = "while_cond" ->
            <<While(call, <<BreakExpr>>), Lit(IntV(1))>>
      [] shape = "for_iterable" ->
            <<For("i", call, <<Id(EntryFile, "i")>>), Lit(IntV(1))>>
      [] shape = "nested_loops" ->
            <<For("i", Lit(Range(0, 2)),
                  <<While(Lit(BoolV(TRUE)), <<call, BreakExpr>>)>>), Lit(IntV(1))>>
      [] shape = "return" -> <<ReturnValue(call)>>

\* The initialiser of the library class's field x.
InitKinds == {"nil", "global", "call"}
FieldOf(init) ==
    CASE init = "nil" -> [name |-> "x", has_init |-> FALSE]
      [] init = "global" ->
            [name |-> "x", has_init |-> TRUE, init |-> Id(LibFile, "g")]
      [] init = "call" ->
            [name |-> "x", has_init |-> TRUE, init |-> Call(Id(LibFile, "h"), <<>>)]

\* The programs a run starts from: a call of every kind at every place, and
\* import graphs with a cycle through the entry file or through a library.
ProgramParams ==
    [body : 1..Len(CalleeBodies), kind : CallKinds \ {"method", "constructor"},
     shape : CallShapes, init : {"nil"}, lib_uses : {<<>>, <<EntryFile>>},
     top_call : {FALSE}]
    \cup
    [body : 1..Len(CalleeBodies), kind : {"method", "constructor"},
     shape : CallShapes, init : InitKinds, lib_uses : {<<>>, <<EntryFile>>},
     top_call : {FALSE}]
    \cup
    [body : 1..Len(CalleeBodies), kind : {"function"}, shape : {"plain"},
     init : {"nil"}, lib_uses : {<<BackFile>>, <<LostFile>>, <<EntryFile, BackFile>>},
     top_call : BOOLEAN]

RECURSIVE UseItems(_)
UseItems(targets) ==
    IF targets = <<>> THEN <<>>
    ELSE <<UseItem(Head(targets))>> \o UseItems(Tail(targets))

\* module_programs as the driver fills it: file id -> the file's items.
BuildProgram(p) ==
    LET body == CalleeBodies[p.body]
    IN (EntryFile :>
           <<UseItem(LibFile),
             FieldItem("g", Lit(IntV(1))),
             FunctionItem("f", <<>>,
                 <<VarDef("g", Lit(IntV(6))), Call(LibMember("h"), <<>>)>>),
             TableItem("Point",
                 <<[name |-> "x", has_init |-> TRUE, init |-> Lit(IntV(3))]>>, <<>>),
             FunctionItem("main", <<>>, MainBody(p.shape, CallOf(p.kind)))>>)
       @@ (LibFile :>
           UseItems(p.lib_uses) \o
           <<FieldItem("g", Lit(IntV(2))),
             FunctionItem("h", <<>>, body),
             TableItem("T", <<FieldOf(p.init)>>,
                 <<[name |-> "m", params |-> <<>>, body |-> body]>>)>>
           \o (IF p.top_call
               THEN <<FieldItem("y", Call(Id(LibFile, "h"), <<>>))>>
               ELSE <<>>))
       @@ (BackFile :>
           <<UseItem(LibFile), FieldItem("g", Lit(IntV(3)))>>)

module_programs == BuildProgram(program)

\* The item of a file with a kind and a name, <<>> if there is none.
FindItem(file, kind, name) ==
    IF file \notin DOMAIN module_programs THEN <<>>
    ELSE LET items == module_programs[file]
             hits == {i \in 1..Len(items) :
                        items[i].k = kind /\ items[i].name = name}
         IN IF hits = {} THEN <<>> ELSE <<items[CHOOSE i \in hits : TRUE]>>

\* Interpreter.function_definitions and Interpreter.table_definitions
function_definitions(file, name) == FindItem(file, "Function", name)
table_definitions(file, name) == FindItem(file, "Table", name)

\* Context.modules: the files the analyzer analysed as imported modules; the
\* entry file is not among them.
ctx_modules == DOMAIN module_programs \ {EntryFile}

\* ---- Environment (interpreter/environment.rs) ----
Builtins == 1
\* Environment::with_enclosing; `call` records the call that created it.
with_enclosing(enclosing, call) ==
    [values |-> <<>>, enclosing |-> enclosing, call |-> call]

\* Environment::define on the environment behind a handle.
define(heap, h, name, value) ==
    [heap EXCEPT ![h].values = (name :> value) @@ @]

\* The environment, from h outwards, that holds name: 0 if none does.
RECURSIVE Resolver(_, _, _)
Resolver(heap, h, name) ==
    IF h = 0 THEN 0
    ELSE IF name \in DOMAIN heap[h].values THEN h
    ELSE Resolver(heap, heap[h].enclosing, name)

\* Environment::get
Bound(heap, h, name) == Resolver(heap, h, name) # 0
get(heap, h, name) == heap[Resolver(heap, h, name)].values[name]

\* A mutant of assign: the value is stored in the current environment.
assign_local(heap, h, name, value) == define(heap, h, name, value)

\* Environment::assign, where it succeeds.
assign(heap, h, name, value) == define(heap, Resolver(heap, h, name), name, value)

\* Interpreter::new
EvalInit ==
    /\ program \in ProgramParams
    /\ envs = <<define(<<with_enclosing(0, 0)>>, 1, "print", NativeFunction("print"))[1],
                with_enclosing(Builtins, 0)>>
    /\ instances = <<>>
    /\ environment = 2
    /\ globals = 2
    /\ current_file_id = EntryFile
    /\ module_cache = <<>>
    /\ kont = <<>>
    /\ ctl = [m |-> "start"]
    /\ cur_call = 0
    /\ ncalls = 0
    /\ last_call = [kind |-> "none"]
    /\ last_loop = [kind |-> "none"]
    /\ cyclic_use = [file |-> 0]
    /\ ImportIdle
    /\ ResolveIdle
    /\ LexIdle
    /\ CheckIdle
    /\ LoopIdle
    /\ LookupIdle
    /\ ParseIdle
    /\ BorrowIdle
    /\ PipelineIdle
    /\ ScopeIdle

(***************************************************************************)
(* The evaluator: eval_program, run_top_level and module loading           *)
(***************************************************************************)
ghosts == <<ncalls, last_call, last_loop, cyclic_use>>

\* The innermost suspended call is one of function f.
InFrame(f) == kont # <<>> /\ Top(kont).f = f

\* run_top_level is at an item of the given kind.
AtItem(kind) ==
    /\ ctl.m = "top"
    /\ InFrame("run_top_level")
    /\ Top(kont).i <= Len(module_programs[Top(kont).file])
    /\ module_programs[Top(kont).file][Top(kont).i].k = kind
Item == module_programs[Top(kont).file][Top(kont).i]
NextItem == SetTop(kont, [Top(kont) EXCEPT !.i = @ + 1])
TopResult(ok) == [m |-> "topret", ok |-> ok]

\* A mutant of TopError: the driver is handed one message for every error.
TopError_generic(err) == [m |-> "topret", ok |-> FALSE, err |-> "TopLevel"]

\* run_top_level, bind_module, load_and_evaluate_module: Err(e.to_string())
TopError(err) == [m |-> "topret", ok |-> FALSE, err |-> err]

\* run_top_level of this file has started and not returned.
Loading(file) ==
    \E i \in 1..Len(kont) : kont[i].f = "run_top_level" /\ kont[i].file = file

\* A mutant of CachedModule: the cache holds another environment than the
\* one the module's items run in.
CachedModule_other(cache, file, module_env) == (file :> Builtins) @@ cache

\* load_and_evaluate_module: self.module_cache.insert(file_id, module_val)
CachedModule(cache, file, module_env) == (file :> module_env) @@ cache

eval_program ==
    /\ ctl.m = "start"
    /\ module_cache' = CachedModule(module_cache, EntryFile, globals)
    /\ kont' = <<[f |-> "run_top_level", file |-> EntryFile, i |-> 1]>>
    /\ ctl' = [m |-> "top"]
    /\ UNCHANGED <<program, envs, instances, environment, globals,
                   current_file_id, cur_call, ghosts>>

\* run_top_level, TopLevelItem::Table
run_top_level_table ==
    /\ AtItem("Table")
    /\ envs' = define(envs, globals, Item.name, Table(current_file_id, Item.name))
    /\ kont' = NextItem
    /\ UNCHANGED <<program, instances, environment, globals, current_file_id,
                   module_cache, ctl, cur_call, ghosts>>

\* run_top_level, TopLevelItem::Function: the value captures self.globals.
run_top_level_function ==
    /\ AtItem("Function")
    /\ envs' = define(envs, globals, Item.name,
                      Function(current_file_id, Item.name, globals))
    /\ kont' = NextItem
    /\ UNCHANGED <<program, instances, environment, globals, current_file_id,
                   module_cache, ctl, cur_call, ghosts>>

\* run_top_level, TopLevelItem::Field: evaluate the initialiser.
run_top_level_field ==
    /\ AtItem("Field")
    /\ ctl' = [m |-> "eval", e |-> Item.init]
    /\ UNCHANGED <<program, envs, instances, environment, globals,
                   current_file_id, module_cache, kont, cur_call, ghosts>>

\* run_top_level, TopLevelItem::Field: the initialiser has been evaluated.
run_top_level_field_done ==
    /\ ctl.m = "ret"
    /\ InFrame("run_top_level")
    /\ IF ctl.r.t = "Ok"
       THEN /\ envs' = define(envs, globals, Item.name, ctl.r.v)
            /\ kont' = NextItem
            /\ ctl' = [m |-> "top"]
       ELSE /\ kont' = Pop(kont)
            /\ ctl' = TopError(IF ctl.r.t = "Err" THEN ctl.r.err
                               ELSE "ControlFlowInGlobalInit")
            /\ UNCHANGED envs
    /\ UNCHANGED <<program, instances, environment, globals, current_file_id,
                   module_cache, cur_call, ghosts>>

\* A mutant of is_cached: a module counts once its top-level items are done.
is_cached_when_loaded(file) == file \in DOMAIN module_cache /\ ~Loading(file)

\* bind_module: self.module_cache.get(&file_id) is Some
is_cached(file) == file \in DOMAIN module_cache

\* bind_module, the module is in module_cache: bind the cached value.
bind_module ==
    /\ AtItem("Use")
    /\ is_cached(Item.target)
    /\ LET file == Item.target
           env == module_cache[file]
       IN /\ envs' = define(envs, globals, ModuleName(file), Module(file, env))
          /\ cyclic_use' =
                IF Loading(file)
                THEN [file |-> file, env |-> env, names |-> DOMAIN envs[env].values]
                ELSE cyclic_use
    /\ kont' = NextItem
    /\ UNCHANGED <<program, instances, environment, globals, current_file_id,
                   module_cache, ctl, cur_call, ncalls, last_call, last_loop>>

\* bind_module, cache miss: load_and_evaluate_module up to run_top_level.
\* Without an AST for the file it returns Err with the context swapped.
load_and_evaluate_module ==
    /\ AtItem("Use")
    /\ ~is_cached(Item.target)
    /\ Len(envs) < MaxEnvs
    /\ LET file == Item.target
           module_env == Len(envs) + 1
       IN /\ envs' = Append(envs, with_enclosing(Builtins, 0))
          /\ module_cache' = CachedModule(module_cache, file, module_env)
          /\ globals' = module_env
          /\ environment' = module_env
          /\ current_file_id' = file
          /\ IF file \in DOMAIN module_programs
             THEN /\ kont' = kont \o
                        <<[f |-> "load_and_evaluate_module",
                           prev_globals |-> globals, prev_env |-> environment,
                           prev_file_id |-> current_file_id, file |-> file,
                           module_env |-> module_env],
                          [f |-> "run_top_level", file |-> file, i |-> 1]>>
                  /\ ctl' = [m |-> "top"]
             ELSE /\ kont' = Pop(kont)
                  /\ ctl' = TopError("AstNotFound")
    /\ UNCHANGED <<program, instances, cur_call, ghosts>>

\* run_top_level has visited every item.
run_top_level_done ==
    /\ ctl.m = "top"
    /\ InFrame("run_top_level")
    /\ Top(kont).i > Len(module_programs[Top(kont).file])
    /\ kont' = Pop(kont)
    /\ ctl' = TopResult(TRUE)
    /\ UNCHANGED <<program, envs, instances, environment, globals,
                   current_file_id, module_cache, cur_call, ghosts>>

\* load_and_evaluate_module after run_top_level: restore the context; then
\* bind_module binds the module, or run_top_level of the importer fails.
load_and_evaluate_module_done ==
    /\ ctl.m = "topret"
    /\ InFrame("load_and_evaluate_module")
    /\ LET fr == Top(kont)
           rest == Pop(kont)
       IN /\ globals' = fr.prev_globals
          /\ environment' = fr.prev_env
          /\ current_file_id' = fr.prev_file_id
          /\ IF ctl.ok
             THEN /\ envs' = define(envs, fr.prev_globals, ModuleName(fr.file),
                                    Module(fr.file, fr.module_env))
                  /\ kont' = SetTop(rest, [Top(rest) EXCEPT !.i = @ + 1])
                  /\ ctl' = [m |-> "top"]
             ELSE /\ kont' = Pop(rest)
                  /\ ctl' = TopError(ctl.err)
                  /\ UNCHANGED envs
    /\ UNCHANGED <<program, instances, module_cache, cur_call, ghosts>>

(***************************************************************************)
(* The evaluator: calls                                                    *)
(***************************************************************************)
Returning(r) == [m |-> "ret", r |-> r]
CallFrames == {"call_value", "call_user_method", "instantiate_table"}

\* The calls that have been entered and have not returned.
CallDepth(k) == Cardinality({i \in 1..Len(k) : k[i].f \in CallFrames})

\* What is recorded of a completed call: the handles (environment, globals)
\* right before it and right after it, what its body produced and what the
\* caller received.
CallRecord(kind, before, after, body, outcome, depth) ==
    [kind |-> kind, before |-> before, after |-> after, body |-> body,
     outcome |-> outcome, depth |-> depth]

\* A mutant of RestoreHandles: globals stays the callee's.
RestoreHandles_env_only(prev_env, prev_globals) == <<prev_env, globals>>

\* call_value, call_user_method, instantiate_table:
\* self.environment = prev_env; self.globals = prev_globals
RestoreHandles(prev_env, prev_globals) == <<prev_env, prev_globals>>

\* A mutant of ReturnToOk: the signal is handed on as it is.
ReturnToOk_kept(result) == result

\* call_value, call_user_method:
\* match result { Return(v) => Ok(v), other => other }
ReturnToOk(result) == IF result.t = "Return" THEN Ok(result.v) ELSE result

\* A mutant of CallEnclosing: the call's environment encloses the caller's.
CallEnclosing_dynamic(captured_env) == environment

\* call_value: Environment::with_enclosing(captured_env.clone())
CallEnclosing(captured_env) == captured_env

\* run_main_entry after eval_program's run_top_level: look main up, call it.
run_main_entry ==
    /\ ctl.m = "topret"
    /\ kont = <<>>
    /\ IF ~ctl.ok
       THEN /\ ctl' = [m |-> "halt", r |-> Err(ctl.err)]
            /\ UNCHANGED kont
       ELSE IF ~Bound(envs, globals, "main")
       THEN /\ ctl' = [m |-> "halt", r |-> Ok(Unit)]
            /\ UNCHANGED kont
       ELSE /\ kont' = <<[f |-> "run_main_entry"]>>
            /\ ctl' = [m |-> "call_value", func |-> get(envs, globals, "main"),
                       args |-> <<>>]
    /\ UNCHANGED <<program, envs, instances, environment, globals,
                   current_file_id, module_cache, cur_call, ghosts>>

\* run_main_entry: what main's call returned ends the program.
run_main_entry_done ==
    /\ ctl.m = "ret"
    /\ InFrame("run_main_entry")
    /\ kont' = <<>>
    /\ ctl' = [m |-> "halt",
               r |-> IF ctl.r.t \in {"Ok", "Return"} THEN Ok(ctl.r.v)
                     ELSE IF ctl.r.t = "Err" THEN ctl.r
                     ELSE Err("ControlFlowEscape")]
    /\ UNCHANGED <<program, envs, instances, environment, globals,
                   current_file_id, module_cache, cur_call, ghosts>>

\* call_value on a value that is not a user function: a native function
\* (print) runs; anything else is NotCallable.
call_value_native ==
    /\ ctl.m = "call_value"
    /\ ctl.func.t # "Function"
    /\ IF ctl.func.t = "NativeFunction"
       THEN /\ ctl' = Returning(Ok(Unit))
            /\ last_call' = CallRecord("native", <<environment, globals>>,
                                       <<environment, globals>>, "none",
                                       Ok(Unit), CallDepth(kont) + 1)
       ELSE /\ ctl' = Returning(Err("NotCallable"))
            /\ UNCHANGED last_call
    /\ UNCHANGED <<program, envs, instances, environment, globals,
                   current_file_id, module_cache, kont, cur_call, ncalls,
                   last_loop, cyclic_use>>

\* call_value, Value::Function: up to execute_block(body), or to the error
\* it returns before the context is swapped.
call_value ==
    /\ ctl.m = "call_value"
    /\ ctl.func.t = "Function"
    /\ LET def == function_definitions(ctl.func.f, ctl.func.s)
           captured_env == ctl.func.e
           before == <<environment, globals>>
           failed(kind) ==
               /\ ctl' = Returning(Err(kind))
               /\ last_call' = CallRecord("function", before, before, "none",
                                          Err(kind), CallDepth(kont) + 1)
               /\ UNCHANGED <<envs, environment, globals, kont, cur_call, ncalls>>
       IN IF def = <<>> THEN failed("Internal")
          ELSE IF Len(ctl.args) # Len(def[1].params)
          THEN failed("ArgumentCountMismatch")
          ELSE /\ Len(envs) < MaxEnvs
               /\ LET func_env ==
                          [with_enclosing(CallEnclosing(captured_env), ncalls + 1)
                             EXCEPT !.values =
                                [n \in {def[1].params[i] : i \in 1..Len(ctl.args)} |->
                                   ctl.args[CHOOSE i \in 1..Len(ctl.args) :
                                               def[1].params[i] = n]]]
                  IN envs' = Append(envs, func_env)
               /\ kont' = Append(kont,
                      [f |-> "call_value", prev_env |-> environment,
                       prev_globals |-> globals, before |-> before,
                       prev_call |-> cur_call])
               /\ environment' = Len(envs) + 1
               /\ globals' = captured_env
               /\ cur_call' = ncalls + 1
               /\ ncalls' = ncalls + 1
               /\ ctl' = [m |-> "block", stmts |-> def[1].body]
               /\ UNCHANGED last_call
    /\ UNCHANGED <<program, instances, current_file_id, module_cache,
                   last_loop, cyclic_use>>

\* call_value after execute_block(body): restore the context, turn Return
\* into Ok.
call_value_done ==
    /\ ctl.m = "ret"
    /\ InFrame("call_value")
    /\ LET fr == Top(kont)
           restored == RestoreHandles(fr.prev_env, fr.prev_globals)
           outcome == ReturnToOk(ctl.r)
       IN /\ environment' = restored[1]
          /\ globals' = restored[2]
          /\ cur_call' = fr.prev_call
          /\ kont' = Pop(kont)
          /\ ctl' = Returning(outcome)
          /\ last_call' = CallRecord("function", fr.before, restored, ctl.r.t,
                                     outcome, CallDepth(kont))
    /\ UNCHANGED <<program, envs, instances, current_file_id, module_cache,
                   ncalls, last_loop, cyclic_use>>

\* The method a BoundMethod value carries: the MethodDefinition of the class
\* find_method_in_chain found it in.
MethodDef(bound) ==
    LET methods == table_definitions(bound.f, bound.c)[1].methods
    IN methods[CHOOSE i \in 1..Len(methods) : methods[i].name = bound.s]

\* call_user_method: up to execute_block(body), or to the argument-count
\* error it returns before the context is swapped.
call_user_method ==
    /\ ctl.m = "call_user_method"
    /\ LET method == MethodDef(ctl.func)
           def_env == ctl.func.e
           before == <<environment, globals>>
       IN IF Len(ctl.args) # Len(method.params)
          THEN /\ ctl' = Returning(Err("ArgumentCountMismatch"))
               /\ last_call' = CallRecord("method", before, before, "none",
                                          Err("ArgumentCountMismatch"),
                                          CallDepth(kont) + 1)
               /\ UNCHANGED <<envs, environment, globals, kont, cur_call, ncalls>>
          ELSE /\ Len(envs) < MaxEnvs
               /\ LET env ==
                          [with_enclosing(CallEnclosing(def_env), ncalls + 1)
                             EXCEPT !.values =
                                [n \in {"self"} \cup
                                       {method.params[i] : i \in 1..Len(ctl.args)} |->
                                   IF n = "self" THEN Instance(ctl.func.n)
                                   ELSE ctl.args[CHOOSE i \in 1..Len(ctl.args) :
                                                    method.params[i] = n]]]
                  IN envs' = Append(envs, env)
               /\ kont' = Append(kont,
                      [f |-> "call_user_method", prev_env |-> environment,
                       prev_globals |-> globals, before |-> before,
                       prev_call |-> cur_call])
               /\ environment' = Len(envs) + 1
               /\ globals' = def_env
               /\ cur_call' = ncalls + 1
               /\ ncalls' = ncalls + 1
               /\ ctl' = [m |-> "block", stmts |-> method.body]
               /\ UNCHANGED last_call
    /\ UNCHANGED <<program, instances, current_file_id, module_cache,
                   last_loop, cyclic_use>>

\* call_user_method after execute_block(body): restore the context, turn
\* Return into Ok.
call_user_method_done ==
    /\ ctl.m = "ret"
    /\ InFrame("call_user_method")
    /\ LET fr == Top(kont)
           restored == RestoreHandles(fr.prev_env, fr.prev_globals)
           outcome == ReturnToOk(ctl.r)
       IN /\ environment' = restored[1]
          /\ globals' = restored[2]
          /\ cur_call' = fr.prev_call
          /\ kont' = Pop(kont)
          /\ ctl' = Returning(outcome)
          /\ last_call' = CallRecord("method", fr.before, restored, ctl.r.t,
                                     outcome, CallDepth(kont))
    /\ UNCHANGED <<program, envs, instances, current_file_id, module_cache,
                   ncalls, last_loop, cyclic_use>>

\* A mutant of definer_env: the initialisers run in the caller's globals.
definer_env_caller(file) == globals

\* instantiate_table: the environment module_cache holds for the file that
\* defines the class; the running globals when the file is the current one
\* and is not cached.
definer_env(file) ==
    IF file \in DOMAIN module_cache THEN module_cache[file] ELSE globals

\* eval_call on a Value::Table, then instantiate_table up to its first
\* initialiser: the errors it returns early, or the switch to the context of
\* the file that defines the class.
instantiate_table ==
    /\ ctl.m = "instantiate_table"
    /\ LET file == ctl.func.f
           def == table_definitions(file, ctl.func.c)
           before == <<environment, globals>>
           failed(kind) ==
               /\ ctl' = Returning(Err(kind))
               /\ last_call' = CallRecord("constructor", before, before, "none",
                                          Err(kind), CallDepth(kont) + 1)
               /\ UNCHANGED <<environment, globals, kont, cur_call, ncalls>>
       IN IF def = <<>> \/ file \notin ctx_modules THEN failed("Internal")
          ELSE IF file \notin DOMAIN module_cache /\ file # current_file_id
          THEN failed("Internal")
          ELSE LET definer == definer_env(file)
               IN /\ kont' = Append(kont,
                         [f |-> "instantiate_table", prev_env |-> environment,
                          prev_globals |-> globals, before |-> before,
                          prev_call |-> cur_call, file |-> file,
                          class |-> ctl.func.c, todo |-> def[1].fields,
                          name |-> "", fields_map |-> <<>>])
                  /\ environment' = definer
                  /\ globals' = definer
                  /\ cur_call' = ncalls + 1
                  /\ ncalls' = ncalls + 1
                  /\ ctl' = [m |-> "init"]
                  /\ UNCHANGED last_call
    /\ UNCHANGED <<program, envs, instances, current_file_id, module_cache,
                   last_loop, cyclic_use>>

\* instantiate_table: the next field; one with an initialiser evaluates it.
\* The fields come out of a HashMap, in no fixed order.
instantiate_table_field ==
    /\ ctl.m = "init"
    /\ InFrame("instantiate_table")
    /\ \E i \in 1..Len(Top(kont).todo) :
          LET fr == Top(kont)
              field == fr.todo[i]
              rest == [j \in 1..(Len(fr.todo) - 1) |->
                          IF j < i THEN fr.todo[j] ELSE fr.todo[j + 1]]
          IN IF field.has_init
             THEN /\ kont' = SetTop(kont, [fr EXCEPT !.todo = rest, !.name = field.name])
                  /\ ctl' = [m |-> "eval", e |-> field.init]
             ELSE /\ kont' = SetTop(kont,
                        [fr EXCEPT !.todo = rest,
                                   !.fields_map = (field.name :> Nil) @@ @])
                  /\ UNCHANGED ctl
    /\ UNCHANGED <<program, envs, instances, environment, globals,
                   current_file_id, module_cache, cur_call, ghosts>>

\* instantiate_table: an initialiser has been evaluated; anything but Ok
\* restores the caller's context and is returned as it is.
instantiate_table_field_done ==
    /\ ctl.m = "ret"
    /\ InFrame("instantiate_table")
    /\ LET fr == Top(kont)
           restored == RestoreHandles(fr.prev_env, fr.prev_globals)
       IN IF ctl.r.t = "Ok"
          THEN /\ kont' = SetTop(kont,
                     [fr EXCEPT !.fields_map = (fr.name :> ctl.r.v) @@ @])
               /\ ctl' = [m |-> "init"]
               /\ UNCHANGED <<environment, globals, cur_call, last_call>>
          ELSE /\ environment' = restored[1]
               /\ globals' = restored[2]
               /\ cur_call' = fr.prev_call
               /\ kont' = Pop(kont)
               /\ ctl' = Returning(ctl.r)
               /\ last_call' = CallRecord("constructor", fr.before, restored,
                                          ctl.r.t, ctl.r, CallDepth(kont))
    /\ UNCHANGED <<program, envs, instances, current_file_id, module_cache,
                   ncalls, last_loop, cyclic_use>>

\* instantiate_table: every field is initialised; restore the caller's
\* context and build the instance.
instantiate_table_done ==
    /\ ctl.m = "init"
    /\ InFrame("instantiate_table")
    /\ Top(kont).todo = <<>>
    /\ LET fr == Top(kont)
           restored == RestoreHandles(fr.prev_env, fr.prev_globals)
           outcome == Ok(Instance(Len(instances) + 1))
       IN /\ environment' = restored[1]
          /\ globals' = restored[2]
          /\ cur_call' = fr.prev_call
          /\ instances' = Append(instances,
                [file |-> fr.file, class |-> fr.class, fields |-> fr.fields_map])
          /\ kont' = Pop(kont)
          /\ ctl' = Returning(outcome)
          /\ last_call' = CallRecord("constructor", fr.before, restored, "Ok",
                                     outcome, CallDepth(kont))
    /\ UNCHANGED <<program, envs, current_file_id, module_cache, ncalls,
                   last_loop, cyclic_use>>

(***************************************************************************)
(* The evaluator: evaluate, expression by expression                       *)
(***************************************************************************)
Evaluating(kind) == ctl.m = "eval" /\ ctl.e.k = kind
Evaluate(e) == [m |-> "eval", e |-> e]
interp == <<program, instances, environment, globals, current_file_id,
            module_cache, cur_call>>

\* require_ok!: a sub-expression returned something other than Ok, and the
\* function that evaluated it returns the same to its own caller.
Propagate ==
    /\ kont' = Pop(kont)
    /\ ctl' = Returning(ctl.r)

eval_literal ==
    /\ Evaluating("Literal")
    /\ ctl' = Returning(Ok(ctl.e.v))
    /\ UNCHANGED <<interp, envs, kont, ghosts>>

\* eval_identifier: self.environment.borrow().get(sym)
eval_identifier ==
    /\ Evaluating("Identifier")
    /\ ctl' = Returning(IF Bound(envs, environment, ctl.e.name)
                        THEN Ok(get(envs, environment, ctl.e.name))
                        ELSE Err("UndefinedVariable"))
    /\ UNCHANGED <<interp, envs, kont, ghosts>>

\* eval_field_access: evaluate the target first.
eval_field_access ==
    /\ Evaluating("FieldAccess")
    /\ kont' = Append(kont, [f |-> "eval_field_access", field |-> ctl.e.field])
    /\ ctl' = Evaluate(ctl.e.target)
    /\ UNCHANGED <<interp, envs, ghosts>>

\* access_instance_member: the instance's own fields, then the methods of
\* its class, bound with the environment of the file that defines the class.
access_instance_member(handle, field) ==
    LET inst == instances[handle]
        def == table_definitions(inst.file, inst.class)
    IN IF field \in DOMAIN inst.fields THEN Ok(inst.fields[field])
       ELSE IF /\ def # <<>>
               /\ \E i \in 1..Len(def[1].methods) : def[1].methods[i].name = field
               /\ inst.file \in DOMAIN module_cache
       THEN Ok(BoundMethod(handle, inst.file, inst.class, field,
                           module_cache[inst.file]))
       ELSE Err("PropertyNotFound")

\* access_module_member: a lookup in the environment module_cache holds for
\* the file.
access_module_member(file, field) ==
    IF file \notin DOMAIN module_cache THEN Err("Internal")
    ELSE IF Bound(envs, module_cache[file], field)
    THEN Ok(get(envs, module_cache[file], field))
    ELSE Err("PropertyNotFound")

\* eval_field_access once the target is evaluated.
eval_field_access_done ==
    /\ ctl.m = "ret"
    /\ InFrame("eval_field_access")
    /\ kont' = Pop(kont)
    /\ ctl' = Returning(
          IF ctl.r.t # "Ok" THEN ctl.r
          ELSE IF ctl.r.v.t = "Instance"
          THEN access_instance_member(ctl.r.v.n, Top(kont).field)
          ELSE IF ctl.r.v.t = "Module"
          THEN access_module_member(ctl.r.v.f, Top(kont).field)
          ELSE Err("TypeError"))
    /\ UNCHANGED <<interp, envs, ghosts>>

\* eval_call: evaluate the callee first.
eval_call ==
    /\ Evaluating("Call")
    /\ kont' = Append(kont, [f |-> "eval_call", stage |-> "callee",
                             args |-> ctl.e.args, values |-> <<>>, func |-> Unit])
    /\ ctl' = Evaluate(ctl.e.callee)
    /\ UNCHANGED <<interp, envs, ghosts>>

\* eval_call: the callee is evaluated.
eval_call_callee_done ==
    /\ ctl.m = "ret"
    /\ InFrame("eval_call")
    /\ Top(kont).stage = "callee"
    /\ IF ctl.r.t = "Ok"
       THEN /\ kont' = SetTop(kont, [Top(kont) EXCEPT !.stage = "args",
                                                      !.func = ctl.r.v])
            /\ ctl' = [m |-> "args"]
       ELSE Propagate
    /\ UNCHANGED <<interp, envs, ghosts>>

\* eval_call: evaluate the next argument.
eval_call_arg ==
    /\ ctl.m = "args"
    /\ InFrame("eval_call")
    /\ Len(Top(kont).values) < Len(Top(kont).args)
    /\ ctl' = Evaluate(Top(kont).args[Len(Top(kont).values) + 1])
    /\ UNCHANGED <<interp, envs, kont, ghosts>>

\* eval_call: an argument is evaluated.
eval_call_arg_done ==
    /\ ctl.m = "ret"
    /\ InFrame("eval_call")
    /\ Top(kont).stage = "args"
    /\ IF ctl.r.t = "Ok"
       THEN /\ kont' = SetTop(kont, [Top(kont) EXCEPT !.values = Append(@, ctl.r.v)])
            /\ ctl' = [m |-> "args"]
       ELSE Propagate
    /\ UNCHANGED <<interp, envs, ghosts>>

\* eval_call: callee and arguments are evaluated; `match func`.
eval_call_dispatch ==
    /\ ctl.m = "args"
    /\ InFrame("eval_call")
    /\ Len(Top(kont).values) = Len(Top(kont).args)
    /\ kont' = Pop(kont)
    /\ LET func == Top(kont).func
           entry(m) == [m |-> m, func |-> func, args |-> Top(kont).values]
       IN ctl' = CASE func.t \in {"NativeFunction", "Function"} -> entry("call_value")
                   [] func.t = "BoundMethod" -> entry("call_user_method")
                   [] func.t = "Table" -> entry("instantiate_table")
                   [] OTHER -> Returning(Err("NotCallable"))
    /\ UNCHANGED <<interp, envs, ghosts>>

\* eval_assignment to an identifier: evaluate the right-hand side first.
eval_assignment ==
    /\ Evaluating("Assign")
    /\ kont' = Append(kont, [f |-> "eval_assignment", name |-> ctl.e.name])
    /\ ctl' = Evaluate(ctl.e.value)
    /\ UNCHANGED <<interp, envs, ghosts>>

\* eval_assignment: assign where the name is bound, else define it in the
\* current environment.
eval_assignment_done ==
    /\ ctl.m = "ret"
    /\ InFrame("eval_assignment")
    /\ kont' = Pop(kont)
    /\ IF ctl.r.t = "Ok"
       THEN /\ envs' = IF Bound(envs, environment, Top(kont).name)
                       THEN assign(envs, environment, Top(kont).name, ctl.r.v)
                       ELSE define(envs, environment, Top(kont).name, ctl.r.v)
            /\ ctl' = Returning(Ok(Unit))
       ELSE /\ ctl' = Returning(ctl.r)
            /\ UNCHANGED envs
    /\ UNCHANGED <<interp, ghosts>>

\* evaluate, ExpressionData::VariableDefinition: evaluate the initialiser.
variable_definition ==
    /\ Evaluating("VariableDefinition")
    /\ kont' = Append(kont, [f |-> "variable_definition", name |-> ctl.e.name])
    /\ ctl' = Evaluate(ctl.e.init)
    /\ UNCHANGED <<interp, envs, ghosts>>

\* evaluate, ExpressionData::VariableDefinition: define the name.
variable_definition_done ==
    /\ ctl.m = "ret"
    /\ InFrame("variable_definition")
    /\ kont' = Pop(kont)
    /\ IF ctl.r.t = "Ok"
       THEN /\ envs' = define(envs, environment, Top(kont).name, ctl.r.v)
            /\ ctl' = Returning(Ok(Unit))
       ELSE /\ ctl' = Returning(ctl.r)
            /\ UNCHANGED envs
    /\ UNCHANGED <<interp, ghosts>>

(***************************************************************************)
(* The evaluator: blocks, if, loops, return, break and continue            *)
(***************************************************************************)
\* A mutant of BlockRestore: the block's environment stays current.
BlockRestore_kept(prev_env) == environment

\* execute_block: self.environment = prev_env
BlockRestore(prev_env) == prev_env

\* execute_block: a fresh environment enclosing the current one.
execute_block ==
    /\ ctl.m = "block"
    /\ Len(envs) < MaxEnvs
    /\ envs' = Append(envs, with_enclosing(environment, cur_call))
    /\ kont' = Append(kont, [f |-> "execute_block", stmts |-> ctl.stmts, i |-> 1,
                             prev_env |-> environment, last_val |-> Unit])
    /\ environment' = Len(envs) + 1
    /\ ctl' = [m |-> "stmt"]
    /\ UNCHANGED <<program, instances, globals, current_file_id, module_cache,
                   cur_call, ghosts>>

\* execute_block: evaluate the next statement.
execute_block_stmt ==
    /\ ctl.m = "stmt"
    /\ InFrame("execute_block")
    /\ Top(kont).i <= Len(Top(kont).stmts)
    /\ ctl' = Evaluate(Top(kont).stmts[Top(kont).i])
    /\ UNCHANGED <<interp, envs, kont, ghosts>>

\* execute_block: a statement is evaluated; anything but Ok ends the block
\* with the environment restored.
execute_block_stmt_done ==
    /\ ctl.m = "ret"
    /\ InFrame("execute_block")
    /\ IF ctl.r.t = "Ok"
       THEN /\ kont' = SetTop(kont, [Top(kont) EXCEPT !.i = @ + 1,
                                                      !.last_val = ctl.r.v])
            /\ ctl' = [m |-> "stmt"]
            /\ UNCHANGED environment
       ELSE /\ environment' = BlockRestore(Top(kont).prev_env)
            /\ Propagate
    /\ UNCHANGED <<program, envs, instances, globals, current_file_id,
                   module_cache, cur_call, ghosts>>

\* execute_block: the statements are done.
execute_block_done ==
    /\ ctl.m = "stmt"
    /\ InFrame("execute_block")
    /\ Top(kont).i > Len(Top(kont).stmts)
    /\ environment' = BlockRestore(Top(kont).prev_env)
    /\ kont' = Pop(kont)
    /\ ctl' = Returning(Ok(Top(kont).last_val))
    /\ UNCHANGED <<program, envs, instances, globals, current_file_id,
                   module_cache, cur_call, ghosts>>

is_truthy(val) ==
    CASE val.t = "Nil" -> FALSE
      [] val.t \in {"Bool", "Int"} -> val.n # 0
      [] OTHER -> TRUE

\* eval_if: evaluate the condition first.
eval_if ==
    /\ Evaluating("If")
    /\ kont' = Append(kont, [f |-> "eval_if", then_block |-> ctl.e.then_block])
    /\ ctl' = Evaluate(ctl.e.cond)
    /\ UNCHANGED <<interp, envs, ghosts>>

\* eval_if: the condition is evaluated (no else block).
eval_if_done ==
    /\ ctl.m = "ret"
    /\ InFrame("eval_if")
    /\ kont' = Pop(kont)
    /\ ctl' = IF ctl.r.t # "Ok" THEN Returning(ctl.r)
              ELSE IF is_truthy(ctl.r.v)
              THEN [m |-> "block", stmts |-> Top(kont).then_block]
              ELSE Returning(Ok(Unit))
    /\ UNCHANGED <<interp, envs, ghosts>>

\* What is recorded of a loop that has returned: its result and the part of
\* the loop the result came from.
LoopRecord(kind, result, from) == [kind |-> kind, result |-> result, from |-> from]

\* eval_while: evaluate the condition.
eval_while ==
    /\ Evaluating("While")
    /\ kont' = Append(kont, [f |-> "eval_while", cond |-> ctl.e.cond,
                             body |-> ctl.e.body, stage |-> "cond", prev_env |-> 0])
    /\ ctl' = Evaluate(ctl.e.cond)
    /\ UNCHANGED <<interp, envs, ghosts>>

\* eval_while: the condition is evaluated: require_ok!, the Bool check, the
\* end of the loop, or the body in a fresh environment.
eval_while_cond_done ==
    /\ ctl.m = "ret"
    /\ InFrame("eval_while")
    /\ Top(kont).stage = "cond"
    /\ LET leave(r) ==
               /\ kont' = Pop(kont)
               /\ ctl' = Returning(r)
               /\ last_loop' = LoopRecord("while", r.t, "cond")
               /\ UNCHANGED <<envs, environment>>
       IN IF ctl.r.t # "Ok" THEN leave(ctl.r)
          ELSE IF ctl.r.v.t # "Bool" THEN leave(Err("TypeError"))
          ELSE IF ctl.r.v.n = 0 THEN leave(Ok(Unit))
          ELSE /\ Len(envs) < MaxEnvs
               /\ envs' = Append(envs, with_enclosing(environment, cur_call))
               /\ kont' = SetTop(kont, [Top(kont) EXCEPT !.stage = "body",
                                                         !.prev_env = environment])
               /\ environment' = Len(envs) + 1
               /\ ctl' = [m |-> "block", stmts |-> Top(kont).body]
               /\ UNCHANGED last_loop
    /\ UNCHANGED <<program, instances, globals, current_file_id, module_cache,
                   cur_call, ncalls, last_call, cyclic_use>>

\* eval_while: the body has run; `match result`.
eval_while_body_done ==
    /\ ctl.m = "ret"
    /\ InFrame("eval_while")
    /\ Top(kont).stage = "body"
    /\ environment' = Top(kont).prev_env
    /\ IF ctl.r.t \in {"Ok", "Continue"}
       THEN /\ kont' = SetTop(kont, [Top(kont) EXCEPT !.stage = "cond"])
            /\ ctl' = Evaluate(Top(kont).cond)
            /\ UNCHANGED last_loop
       ELSE /\ kont' = Pop(kont)
            /\ ctl' = Returning(IF ctl.r.t = "Break" THEN Ok(Unit) ELSE ctl.r)
            /\ last_loop' = LoopRecord("while",
                                       IF ctl.r.t = "Break" THEN "Ok" ELSE ctl.r.t,
                                       "body")
    /\ UNCHANGED <<program, envs, instances, globals, current_file_id,
                   module_cache, cur_call, ncalls, last_call, cyclic_use>>

\* eval_for: evaluate the iterable.
eval_for ==
    /\ Evaluating("For")
    /\ kont' = Append(kont, [f |-> "eval_for", iterator |-> ctl.e.iterator,
                             body |-> ctl.e.body, stage |-> "iterable",
                             next |-> 0, end |-> 0, prev_env |-> 0])
    /\ ctl' = Evaluate(ctl.e.iterable)
    /\ UNCHANGED <<interp, envs, ghosts>>

\* eval_for: the iterable is evaluated: require_ok!, then a Range is walked
\* and any other value here is a TypeError.
eval_for_iterable_done ==
    /\ ctl.m = "ret"
    /\ InFrame("eval_for")
    /\ Top(kont).stage = "iterable"
    /\ IF ctl.r.t = "Ok" /\ ctl.r.v.t = "Range"
       THEN /\ kont' = SetTop(kont, [Top(kont) EXCEPT !.stage = "body",
                                                      !.next = ctl.r.v.n,
                                                      !.end = ctl.r.v.m])
            /\ ctl' = [m |-> "iter"]
            /\ UNCHANGED last_loop
       ELSE LET r == IF ctl.r.t = "Ok" THEN Err("TypeError") ELSE ctl.r
            IN /\ kont' = Pop(kont)
               /\ ctl' = Returning(r)
               /\ last_loop' = LoopRecord("for", r.t, "iterable")
    /\ UNCHANGED <<interp, envs, ncalls, last_call, cyclic_use>>

\* eval_loop_body: the next item, in a fresh environment that binds the
\* iterator, then execute_block(body).
eval_loop_body ==
    /\ ctl.m = "iter"
    /\ InFrame("eval_for")
    /\ Top(kont).next < Top(kont).end
    /\ Len(envs) < MaxEnvs
    /\ envs' = Append(envs, [with_enclosing(environment, cur_call) EXCEPT
                                !.values = (Top(kont).iterator :> IntV(Top(kont).next))])
    /\ kont' = SetTop(kont, [Top(kont) EXCEPT !.next = @ + 1,
                                              !.prev_env = environment])
    /\ environment' = Len(envs) + 1
    /\ ctl' = [m |-> "block", stmts |-> Top(kont).body]
    /\ UNCHANGED <<program, instances, globals, current_file_id, module_cache,
                   cur_call, ghosts>>

\* eval_loop_body restores the environment; eval_for's `match result`.
eval_loop_body_done ==
    /\ ctl.m = "ret"
    /\ InFrame("eval_for")
    /\ Top(kont).stage = "body"
    /\ environment' = Top(kont).prev_env
    /\ IF ctl.r.t \in {"Ok", "Continue"}
       THEN /\ ctl' = [m |-> "iter"]
            /\ UNCHANGED <<kont, last_loop>>
       ELSE /\ kont' = Pop(kont)
            /\ ctl' = Returning(IF ctl.r.t = "Break" THEN Ok(Unit) ELSE ctl.r)
            /\ last_loop' = LoopRecord("for",
                                       IF ctl.r.t = "Break" THEN "Ok" ELSE ctl.r.t,
                                       "body")
    /\ UNCHANGED <<program, envs, instances, globals, current_file_id,
                   module_cache, cur_call, ncalls, last_call, cyclic_use>>

\* eval_for: the items are used up.
eval_for_done ==
    /\ ctl.m = "iter"
    /\ InFrame("eval_for")
    /\ Top(kont).next >= Top(kont).end
    /\ kont' = Pop(kont)
    /\ ctl' = Returning(Ok(Unit))
    /\ last_loop' = LoopRecord("for", "Ok", "end")
    /\ UNCHANGED <<interp, envs, ncalls, last_call, cyclic_use>>

\* eval_return: `return` alone is Return(Unit); else evaluate the value.
eval_return ==
    /\ Evaluating("Return")
    /\ IF ctl.e.has_value
       THEN /\ kont' = Append(kont, [f |-> "eval_return"])
            /\ ctl' = Evaluate(ctl.e.value)
       ELSE /\ ctl' = Returning(Return(Unit))
            /\ UNCHANGED kont
    /\ UNCHANGED <<interp, envs, ghosts>>

\* eval_return: the value is evaluated.
eval_return_done ==
    /\ ctl.m = "ret"
    /\ InFrame("eval_return")
    /\ kont' = Pop(kont)
    /\ ctl' = Returning(IF ctl.r.t = "Ok" THEN Return(ctl.r.v) ELSE ctl.r)
    /\ UNCHANGED <<interp, envs, ghosts>>

\* evaluate, ExpressionData::Break
eval_break ==
    /\ Evaluating("Break")
    /\ ctl' = Returning(Break)
    /\ UNCHANGED <<interp, envs, kont, ghosts>>

\* evaluate, ExpressionData::Continue
eval_continue ==
    /\ Evaluating("Continue")
    /\ ctl' = Returning(Continue)
    /\ UNCHANGED <<interp, envs, kont, ghosts>>

EvalNext ==
    \/ eval_program /\ UNCHANGED notEval
    \/ run_top_level_table /\ UNCHANGED notEval
    \/ run_top_level_function /\ UNCHANGED notEval
    \/ run_top_level_field /\ UNCHANGED notEval
    \/ run_top_level_field_done /\ UNCHANGED notEval
    \/ bind_module /\ UNCHANGED notEval
    \/ load_and_evaluate_module /\ UNCHANGED notEval
    \/ run_top_level_done /\ UNCHANGED notEval
    \/ load_and_evaluate_module_done /\ UNCHANGED notEval
    \/ run_main_entry /\ UNCHANGED notEval
    \/ run_main_entry_done /\ UNCHANGED notEval
    \/ call_value_native /\ UNCHANGED notEval
    \/ call_value /\ UNCHANGED notEval
    \/ call_value_done /\ UNCHANGED notEval
    \/ call_user_method /\ UNCHANGED notEval
    \/ call_user_method_done /\ UNCHANGED notEval
    \/ instantiate_table /\ UNCHANGED notEval
    \/ instantiate_table_field /\ UNCHANGED notEval
    \/ instantiate_table_field_done /\ UNCHANGED notEval
    \/ instantiate_table_done /\ UNCHANGED notEval
    \/ eval_literal /\ UNCHANGED notEval
    \/ eval_identifier /\ UNCHANGED notEval
    \/ eval_field_access /\ UNCHANGED notEval
    \/ eval_field_access_done /\ UNCHANGED notEval
    \/ eval_call /\ UNCHANGED notEval
    \/ eval_call_callee_done /\ UNCHANGED notEval
    \/ eval_call_arg /\ UNCHANGED notEval
    \/ eval_call_arg_done /\ UNCHANGED notEval
    \/ eval_call_dispatch /\ UNCHANGED notEval
    \/ eval_assignment /\ UNCHANGED notEval
    \/ eval_assignment_done /\ UNCHANGED notEval
    \/ variable_definition /\ UNCHANGED notEval
    \/ variable_definition_done /\ UNCHANGED notEval
    \/ execute_block /\ UNCHANGED notEval
    \/ execute_block_stmt /\ UNCHANGED notEval
    \/ execute_block_stmt_done /\ UNCHANGED notEval
    \/ execute_block_done /\ UNCHANGED notEval
    \/ eval_if /\ UNCHANGED notEval
    \/ eval_if_done /\ UNCHANGED notEval
    \/ eval_while /\ UNCHANGED notEval
    \/ eval_while_cond_done /\ UNCHANGED notEval
    \/ eval_while_body_done /\ UNCHANGED notEval
    \/ eval_for /\ UNCHANGED notEval
    \/ eval_for_iterable_done /\ UNCHANGED notEval
    \/ eval_loop_body /\ UNCHANGED notEval
    \/ eval_loop_body_done /\ UNCHANGED notEval
    \/ eval_for_done /\ UNCHANGED notEval
    \/ eval_return /\ UNCHANGED notEval
    \/ eval_return_done /\ UNCHANGED notEval
    \/ eval_break /\ UNCHANGED notEval
    \/ eval_continue /\ UNCHANGED notEval

SpecEval == EvalInit /\ [][EvalNext]_vars

(***************************************************************************)
(* The evaluator: properties                                               *)
(***************************************************************************)
\* The environments the running invocation created: its parameter
\* environment and the loop environments opened inside it.
LocalEnvs == {h \in 1..Len(envs) : envs[h].call = cur_call}

\* A frame of a suspended call whose caller runs in other globals than those
\* of the given file and holds the name in an environment of its own.
ShadowingCaller(file, name) ==
    \E i \in 1..Len(kont) :
        /\ kont[i].f \in {"call_value", "call_user_method"}
        /\ kont[i].prev_globals # module_cache[file]
        /\ Bound(envs, kont[i].prev_env, name)
        /\ envs[Resolver(envs, kont[i].prev_env, name)].call # 0

\* C4: inside a call of a user-defined function or method, made from any
\* module at any depth, an identifier that is not bound by the running
\* invocation itself resolves exactly as it resolves in the global environment
\* of the module whose source defines the body, never in an environment of
\* the caller.
C4_DefinitionSiteGlobals ==
    (Evaluating("Identifier") /\ cur_call # 0) =>
        /\ ctl.e.file \in DOMAIN module_cache
        /\ LET r == Resolver(envs, environment, ctl.e.name)
           IN r \notin LocalEnvs =>
                 r = Resolver(envs, module_cache[ctl.e.file], ctl.e.name)

\* A body defined in the library looks g up two calls deep, while its caller
\* in the entry file holds a local g and runs in the entry file's globals;
\* the lookup lands in the library's globals.
C4_Witness ==
    /\ Evaluating("Identifier")
    /\ cur_call # 0
    /\ ctl.e.name = "g"
    /\ ctl.e.file = LibFile
    /\ CallDepth(kont) >= 2
    /\ ShadowingCaller(LibFile, "g")
    /\ Resolver(envs, environment, "g") = module_cache[LibFile]
    /\ globals # module_cache[EntryFile]

\* C5: whenever a call has completed (function, method or constructor, with
\* any outcome, an argument-count error included, nested and across modules)
\* environment and globals are the handles they were right before the call.
C5_HandlesRestored ==
    last_call.kind # "none" => last_call.before = last_call.after

\* A call into another module, made from inside a call, has completed with an
\* outcome other than Ok, and the handles before it were not the globals.
C5_Witness ==
    /\ last_call.kind \in {"function", "method", "constructor"}
    /\ last_call.depth >= 2
    /\ last_call.outcome.t # "Ok"
    /\ last_call.body # "none"
    /\ last_call.before[1] # last_call.before[2]
    /\ last_call.before = last_call.after
    /\ <<environment, globals>> = last_call.after

\* The Module values bound in any environment.
BoundModules ==
    {envs[h].values[n] : <<h, n>> \in
        {p \in (1..Len(envs)) \X {ModuleName(f) : f \in FileIds \cup {LostFile}} :
            /\ p[2] \in DOMAIN envs[p[1]].values
            /\ envs[p[1]].values[p[2]].t = "Module"}}

\* C6: a module is in module_cache from before its first top-level item
\* runs, its items populate the cached environment, and every bound Module
\* value (one bound by a `use` that closes a cycle included) holds that same
\* environment, which only gains bindings after the `use`.
C6_ModuleCachedBeforeRun ==
    /\ \A i \in 1..Len(kont) :
          kont[i].f = "run_top_level" => kont[i].file \in DOMAIN module_cache
    /\ (ctl.m = "top" /\ InFrame("run_top_level")) =>
          globals = module_cache[Top(kont).file]
    /\ \A v \in BoundModules :
          v.f \in DOMAIN module_cache /\ v.e = module_cache[v.f]
    /\ cyclic_use.file # 0 =>
          /\ cyclic_use.env = module_cache[cyclic_use.file]
          /\ cyclic_use.names \subseteq DOMAIN envs[cyclic_use.env].values

\* The library imported the entry file while the entry file was loading and
\* had not defined g; later a call read g through that Module value.
C6_Witness ==
    /\ cyclic_use.file = EntryFile
    /\ "g" \notin cyclic_use.names
    /\ "g" \in DOMAIN envs[cyclic_use.env].values
    /\ program.body = 9
    /\ last_call.kind = "function"
    /\ last_call.body = "Ok"
    /\ last_call.outcome = Ok(IntV(1))

\* C7: no completed function or method call hands Break or Continue to its
\* caller; a Break or Continue surfacing from the body is a runtime error.
C7_BreakIsErrorAtCall ==
    last_call.kind \in {"function", "method"} =>
        /\ last_call.outcome.t \notin {"Break", "Continue"}
        /\ last_call.body \in {"Break", "Continue"} => last_call.outcome.t = "Err"

C9_LoopConsumesSignals ==
    last_loop.kind # "none" => last_loop.result \notin {"Break", "Continue"}

(***************************************************************************)
(* Types: enum Type, assignability and substitution                        *)
(***************************************************************************)
MaxArity == 2       \* parameters, generic arguments, tuple elements of a type

\* enum Type: a variant is a tuple that starts with the variant's name.
TyInt == <<"Int">>
TyFloat == <<"Float">>
TyBool == <<"Bool">>
TyStr == <<"Str">>
TyChar == <<"Char">>
TyAny == <<"Any">>
TyNil == <<"Nil">>
TyUnit == <<"Unit">>
TyInfer == <<"Infer">>
TyError == <<"Error">>
TyNever == <<"Never">>
TyTable(id) == <<"Table", id>>
TyGenericParam(sym) == <<"GenericParam", sym>>
TyGenericInstance(base, args) == <<"GenericInstance", base, args>>
TyArray(inner) == <<"Array", inner>>
TyFunction(params, ret) == <<"Function", params, ret>>
TyStructural(fields) == <<"Structural", fields>>
TyTuple(types) == <<"Tuple", types>>
TyRange(inner) == <<"Range", inner>>
TyModule(path) == <<"Module", path>>

\* The generic parameter symbols the checked declarations use.
GenericSyms == {"T", "U"}

\* The types without a component type.
Atoms ==
    {TyInt, TyFloat, TyBool, TyStr, TyChar, TyAny, TyNil, TyUnit, TyInfer,
     TyError, TyNever, TyModule(EntryFile)}
    \cup {TyTable(c) : c \in ClassIds}
    \cup {TyGenericParam(g) : g \in GenericSyms}

\* The component types the checked compound types are built from.
Inner == {TyInt, TyTable(1), TyTable(2), TyGenericParam("T")}

\* The types with components in S.
Compound(S) ==
    {TyArray(t) : t \in S}
    \cup {TyRange(t) : t \in S}
    \cup {TyTuple(ts) : ts \in SeqsUpTo(S, MaxArity)}
    \cup {TyFunction(ps, r) : <<ps, r>> \in SeqsUpTo(S, MaxArity) \X S}
    \cup {TyGenericInstance(1, as) : as \in SeqsUpTo(S, MaxArity) \ {<<>>}}
    \cup {TyStructural(<<>>)}
    \cup {TyStructural(<<<<"name", t>>>>) : t \in S}

\* A compound type as the one component of another.
Nested(S) ==
    {TyArray(t) : t \in S}
    \cup {TyTuple(<<t>>) : t \in S}
    \cup {TyFunction(<<t>>, TyUnit) : t \in S}
    \cup {TyFunction(<<>>, t) : t \in S}
    \cup {TyGenericInstance(1, <<t>>) : t \in S}

Types == Atoms \cup Compound(Inner) \cup Nested(Compound(Inner))

\* A mutant of is_assignable_from: two classes are assignable whatever they
\* are.
RECURSIVE is_assignable_from_any_table(_, _)
is_assignable_from_any_table(self, other) ==
    IF other = TyNever THEN TRUE
    ELSE IF self = TyNever THEN FALSE
    ELSE IF self = TyAny \/ other = TyAny \/ self = TyError \/ other = TyError
    THEN TRUE
    ELSE IF self[1] # other[1] THEN FALSE
    ELSE IF self[1] \in {"Int", "Float", "Bool", "Str", "Unit", "Table"} THEN TRUE
    ELSE IF self[1] = "GenericParam" THEN self[2] = other[2]
    ELSE IF self[1] = "Array" THEN is_assignable_from_any_table(self[2], other[2])
    ELSE FALSE

\* Type::is_assignable_from: can `other` be assigned to `self`.
RECURSIVE is_assignable_from(_, _)
is_assignable_from(self, other) ==
    IF other = TyNever THEN TRUE
    ELSE IF self = TyNever THEN FALSE
    ELSE IF self = TyAny \/ other = TyAny \/ self = TyError \/ other = TyError
    THEN TRUE
    ELSE IF self[1] # other[1] THEN FALSE
    ELSE IF self[1] \in {"Int", "Float", "Bool", "Str", "Unit"} THEN TRUE
    ELSE IF self[1] \in {"GenericParam", "Table"} THEN self[2] = other[2]
    ELSE IF self[1] = "Array" THEN is_assignable_from(self[2], other[2])
    ELSE IF self[1] = "Function"
    THEN /\ Len(self[2]) = Len(other[2])
         /\ \A i \in 1..Len(self[2]) : is_assignable_from(other[2][i], self[2][i])
         /\ is_assignable_from(self[3], other[3])
    ELSE IF self[1] = "GenericInstance"
    THEN /\ self[2] = other[2]
         /\ Len(self[3]) = Len(other[3])
         /\ \A i \in 1..Len(self[3]) : is_assignable_from(self[3][i], other[3][i])
    ELSE FALSE

\* HashMap::get on a substitution mapping, a function from symbols to types.
Mapped(mapping, sym) == IF sym \in DOMAIN mapping THEN mapping[sym] ELSE TyGenericParam(sym)

\* A mutant of substitute: the arguments of a generic instance are left as
\* they are.
RECURSIVE substitute_shallow(_, _)
substitute_shallow(self, mapping) ==
    IF self[1] = "GenericParam" THEN Mapped(mapping, self[2])
    ELSE IF self[1] = "Array" THEN TyArray(substitute_shallow(self[2], mapping))
    ELSE self

\* Type::substitute
RECURSIVE substitute(_, _)
substitute(self, mapping) ==
    IF self[1] = "GenericParam" THEN Mapped(mapping, self[2])
    ELSE IF self[1] = "GenericInstance"
    THEN TyGenericInstance(self[2],
             [i \in 1..Len(self[3]) |-> substitute(self[3][i], mapping)])
    ELSE IF self[1] = "Array" THEN TyArray(substitute(self[2], mapping))
    ELSE self

(***************************************************************************)
(* The check pass: type compatibility and the override constraints         *)
(***************************************************************************)
\* The class hierarchies of an analysed program after the resolve pass: a
\* class names no parent (0) or a class declared before it.
Hierarchies == {h \in [ClassIds -> {0} \cup ClassIds] : \A c \in ClassIds : h[c] < c}

\* find_table_info, as far as is_subtype reads it: info.parent (0: None).
find_table_info(id) == hierarchy[id]

\* A mutant of is_subtype: only the class itself and its direct parent are
\* looked at.
is_subtype_direct(child_id, target_id) ==
    child_id = target_id \/ find_table_info(child_id) = target_id

\* is_subtype
RECURSIVE is_subtype(_, _)
is_subtype(child_id, target_id) ==
    IF child_id = target_id THEN TRUE
    ELSE IF find_table_info(child_id) = 0 THEN FALSE
    ELSE is_subtype(find_table_info(child_id), target_id)

\* check_type_compatibility
RECURSIVE check_type_compatibility(_, _)
check_type_compatibility(target, source) ==
    IF is_assignable_from(target, source) THEN TRUE
    ELSE IF target[1] # source[1] THEN FALSE
    ELSE IF target[1] = "Table" THEN is_subtype(source[2], target[2])
    ELSE IF target[1] = "GenericInstance"
    THEN /\ target[2] = source[2]
         /\ Len(target[3]) = Len(source[3])
         /\ \A i \in 1..Len(target[3]) :
               check_type_compatibility(target[3][i], source[3][i])
    ELSE IF target[1] = "Array" THEN check_type_compatibility(target[2], source[2])
    ELSE FALSE

\* self.report(span, kind): the diagnostic added to the analyzer's errors.
Diagnostic(kind, name, reason, index) ==
    [kind |-> kind, name |-> name, reason |-> reason, index |-> index]

\* The diagnostics of a loop over the entries of a HashMap, one sequence of
\* diagnostics per key.
RECURSIVE ForEachEntry(_)
ForEachEntry(reports) ==
    IF DOMAIN reports = {} THEN <<>>
    ELSE LET name == CHOOSE n \in DOMAIN reports : TRUE
         IN reports[name] \o ForEachEntry([n \in DOMAIN reports \ {name} |-> reports[n]])

RECURSIVE Flatten(_)
Flatten(seqs) == IF seqs = <<>> THEN <<>> ELSE Head(seqs) \o Flatten(Tail(seqs))

\* check_override_constraints: 1. the substitution mapping built from the
\* child's parent reference and the parent's generic parameters.
type_mapping(child, parent) ==
    IF /\ child.parent[1] = "GenericInstance"
       /\ Len(child.parent[3]) = Len(parent.generic_params)
    THEN [g \in {parent.generic_params[i] : i \in 1..Len(parent.generic_params)} |->
             child.parent[3][CHOOSE i \in 1..Len(parent.generic_params) :
                                /\ parent.generic_params[i] = g
                                /\ \A j \in (i + 1)..Len(parent.generic_params) :
                                      parent.generic_params[j] # g]]
    ELSE <<>>

\* check_override_constraints: the parent's signature with its generic
\* parameters substituted.
expected_params(child, parent, name) ==
    [i \in 1..Len(parent.methods[name].params) |->
        substitute(parent.methods[name].params[i], type_mapping(child, parent))]
expected_ret(child, parent, name) ==
    substitute(parent.methods[name].ret, type_mapping(child, parent))

\* check_override_constraints: the diagnostics it reports.
check_override_constraints(child, parent) ==
    LET field(name) ==
            IF name \notin DOMAIN parent.fields THEN <<>>
            ELSE IF is_assignable_from(
                        substitute(parent.fields[name], type_mapping(child, parent)),
                        child.fields[name])
            THEN <<>>
            ELSE <<Diagnostic("ConstraintViolation", name, "field", 0)>>
        method(name) ==
            IF name \notin DOMAIN parent.methods THEN <<>>
            ELSE LET c_params == child.methods[name].params
                     e_params == expected_params(child, parent, name)
                 IN IF Len(c_params) # Len(e_params)
                    THEN <<Diagnostic("MethodOverrideMismatch", name, "count", 0)>>
                    ELSE Flatten([i \in 1..Len(c_params) |->
                             IF is_assignable_from(c_params[i], e_params[i])
                             THEN <<>>
                             ELSE <<Diagnostic("MethodOverrideMismatch", name,
                                               "parameter", i)>>])
                         \o (IF is_assignable_from(expected_ret(child, parent, name),
                                                   child.methods[name].ret)
                             THEN <<>>
                             ELSE <<Diagnostic("MethodOverrideMismatch", name,
                                               "return", 0)>>)
    IN ForEachEntry([n \in DOMAIN child.fields |-> field(n)])
       \o ForEachEntry([n \in DOMAIN child.methods |-> method(n)])

(***************************************************************************)
(* The check pass: operators, ranges and indexing                          *)
(***************************************************************************)
BinaryOp == {"Add", "Sub", "Mul", "Div", "Mod", "Eq", "Neq", "Lt", "Gt", "Lte",
             "Gte", "And", "Or"}
UnaryOp == {"Neg", "Not"}

\* What a check function returns, and the diagnostics it reported.
Checked(ty, errors) == [ty |-> ty, errors |-> errors]

\* Type::is_numeric
is_numeric(ty) == ty \in {TyInt, TyFloat}

\* check_binary_op
check_binary_op(op, left, right) ==
    LET invalid == Checked(TyError,
                           <<Diagnostic("InvalidBinaryOperand", op, "", 0)>>)
    IN IF left = TyError \/ right = TyError THEN Checked(TyError, <<>>)
       ELSE IF op = "Add"
       THEN IF left = TyStr \/ right = TyStr THEN Checked(TyStr, <<>>)
            ELSE IF left = TyInt /\ right = TyInt THEN Checked(TyInt, <<>>)
            ELSE IF left = TyFloat /\ right = TyFloat THEN Checked(TyFloat, <<>>)
            ELSE invalid
       ELSE IF op = "Mod"
       THEN IF left = TyInt /\ right = TyInt THEN Checked(TyInt, <<>>) ELSE invalid
       ELSE IF op \in {"Sub", "Mul", "Div"}
       THEN IF left = TyInt /\ right = TyInt THEN Checked(TyInt, <<>>)
            ELSE IF left = TyFloat /\ right = TyFloat THEN Checked(TyFloat, <<>>)
            ELSE invalid
       ELSE IF op \in {"Eq", "Neq"} THEN Checked(TyBool, <<>>)
       ELSE IF op \in {"Lt", "Gt", "Lte", "Gte"}
       THEN IF is_numeric(left) /\ is_numeric(right) THEN Checked(TyBool, <<>>)
            ELSE invalid
       ELSE IF left = TyBool /\ right = TyBool THEN Checked(TyBool, <<>>)
       ELSE invalid

\* check_unary_expr, after check_expression(operand) returned ty.
check_unary_expr(op, ty) ==
    IF ty = TyError THEN Checked(TyError, <<>>)
    ELSE IF op = "Neg" /\ ty \in {TyInt, TyFloat} THEN Checked(ty, <<>>)
    ELSE IF op = "Not" /\ ty = TyBool THEN Checked(TyBool, <<>>)
    ELSE Checked(TyError, <<Diagnostic("InvalidUnaryOperand", op, "", 0)>>)

\* check_range_expr, after check_expression returned the types of the bounds.
check_range_expr(start_ty, end_ty) ==
    IF start_ty = TyInt /\ end_ty = TyInt THEN Checked(TyRange(TyInt), <<>>)
    ELSE Checked(TyError,
                 <<Diagnostic("Custom", "Range bounds must be integers", "", 0)>>)

\* check_index_expr, after check_expression returned the types of the target
\* and of the index.
check_index_expr(target_ty, index_ty) ==
    IF target_ty[1] = "Array"
    THEN Checked(target_ty[2],
                 IF index_ty # TyInt
                 THEN <<Diagnostic("InvalidIndexType", "Array", "", 0)>> ELSE <<>>)
    ELSE IF target_ty = TyStr
    THEN Checked(TyStr,
                 IF index_ty # TyInt
                 THEN <<Diagnostic("InvalidIndexType", "String", "", 0)>> ELSE <<>>)
    ELSE Checked(TyError, <<Diagnostic("TypeNotIndexable", "", "", 0)>>)

(***************************************************************************)
(* The check pass: the calls checked                                       *)
(***************************************************************************)
MaxParams == 1      \* parameters of a method of the checked classes

\* The hierarchies the override checks are run under: no inheritance, a
\* chain (class c : c - 1), and every class a child of class 1.
Flat == [c \in ClassIds |-> 0]
Chain == [c \in ClassIds |-> c - 1]
Star == [c \in ClassIds |-> IF c = 1 THEN 0 ELSE 1]

\* The types resolve_ast_type gives the declared parameters (`any` is Error).
SigTypes == {TyInt, TyError, TyTable(1), TyTable(2), TyGenericParam("T")}
RetTypes == {TyInt, TyTable(1), TyTable(2)}
\* Types that involve classes.
ClassTypes ==
    {TyTable(c) : c \in ClassIds}
    \cup {TyArray(TyTable(c)) : c \in ClassIds}
    \cup {TyGenericInstance(1, <<TyTable(c)>>) : c \in ClassIds}
\* The types of the operands of the checked expressions.
OperandTypes == {TyInt, TyFloat, TyBool, TyStr, TyNil, TyError, TyTable(1),
                 TyArray(TyInt)}
\* Substitution mappings.
Mappings == {<<>>, "T" :> TyInt, ("T" :> TyTable(1)) @@ ("U" :> TyArray(TyInt))}

\* How the classes of an override are declared: the parent's generic
\* parameters, the child's parent reference, and the type of a field `v` in
\* the child and in the parent (<<>>: the class has no field).
Declarations ==
    {<< <<>>, TyTable(1), <<>>, <<>> >>,
     << <<"T">>, TyGenericInstance(1, <<TyTable(2)>>), <<>>, <<>> >>,
     << <<"T">>, TyTable(1), <<>>, <<>> >>,
     << <<"T">>, TyGenericInstance(1, <<TyInt, TyInt>>), <<>>, <<>> >>,
     << <<>>, TyTable(1), <<TyInt>>, <<TyInt>> >>,
     << <<>>, TyTable(1), <<TyTable(1)>>, <<TyTable(2)>> >>}

\* TableInfo.fields of a class with the field `v`, or with no field.
Fields(types) == IF types = <<>> THEN <<>> ELSE "v" :> types[1]
\* TableInfo.methods of a class with the one method `take`.
Methods(params, ret) == "take" :> [params |-> params, ret |-> ret]

Asked(q) == query = q /\ answer = [done |-> FALSE]

CheckInit ==
    /\ ImportIdle
    /\ ResolveIdle
    /\ LexIdle
    /\ EvalIdle
    /\ LoopIdle
    /\ LookupIdle
    /\ ParseIdle
    /\ BorrowIdle
    /\ PipelineIdle
    /\ ScopeIdle
    /\ \/ /\ hierarchy = Flat
          /\ \/ \E t \in Types :
                   Asked([op |-> "is_assignable_from", target |-> t, source |-> t])
             \/ \E t \in Atoms, s \in Atoms :
                   Asked([op |-> "is_assignable_from", target |-> t, source |-> s])
             \/ \E t \in Types, mapping \in Mappings :
                   Asked([op |-> "substitute", self |-> t, mapping |-> mapping])
             \/ \E op \in BinaryOp, left \in OperandTypes, right \in OperandTypes :
                   Asked([op |-> "check_binary_op", operator |-> op,
                          left |-> left, right |-> right])
             \/ \E op \in UnaryOp, ty \in OperandTypes :
                   Asked([op |-> "check_unary_expr", operator |-> op, ty |-> ty])
             \/ \E start_ty \in OperandTypes, end_ty \in OperandTypes :
                   Asked([op |-> "check_range_expr", start_ty |-> start_ty,
                          end_ty |-> end_ty])
             \/ \E target_ty \in OperandTypes \cup {TyArray(TyError)},
                   index_ty \in OperandTypes :
                   Asked([op |-> "check_index_expr", target_ty |-> target_ty,
                          index_ty |-> index_ty])
       \/ /\ hierarchy \in Hierarchies
          /\ \E t \in ClassTypes, s \in ClassTypes :
                Asked([op |-> "check_type_compatibility", target |-> t, source |-> s])
       \/ /\ hierarchy \in {Flat, Chain, Star}
          /\ \E d \in Declarations,
                c_params \in SeqsUpTo(SigTypes, MaxParams),
                p_params \in SeqsUpTo(SigTypes, MaxParams),
                c_ret \in RetTypes, p_ret \in RetTypes :
                Asked([op |-> "check_override_constraints",
                       child |-> [parent |-> d[2], fields |-> Fields(d[3]),
                                  methods |-> Methods(c_params, c_ret)],
                       parent |-> [generic_params |-> d[1], fields |-> Fields(d[4]),
                                   methods |-> Methods(p_params, p_ret)]])

Asking(op) == query.op = op /\ ~answer.done
Answer(value, errors) == [done |-> TRUE, value |-> value, errors |-> errors]

AskAssignable ==
    /\ Asking("is_assignable_from")
    /\ answer' = Answer(is_assignable_from(query.target, query.source), <<>>)
    /\ UNCHANGED <<hierarchy, query>>

AskSubstitute ==
    /\ Asking("substitute")
    /\ answer' = Answer(substitute(query.self, query.mapping), <<>>)
    /\ UNCHANGED <<hierarchy, query>>

AskCompatible ==
    /\ Asking("check_type_compatibility")
    /\ answer' = Answer(check_type_compatibility(query.target, query.source), <<>>)
    /\ UNCHANGED <<hierarchy, query>>

AskOverride ==
    /\ Asking("check_override_constraints")
    /\ answer' = Answer(TRUE, check_override_constraints(query.child, query.parent))
    /\ UNCHANGED <<hierarchy, query>>

AskBinary ==
    /\ Asking("check_binary_op")
    /\ LET r == check_binary_op(query.operator, query.left, query.right)
       IN answer' = Answer(r.ty, r.errors)
    /\ UNCHANGED <<hierarchy, query>>

AskUnary ==
    /\ Asking("check_unary_expr")
    /\ LET r == check_unary_expr(query.operator, query.ty)
       IN answer' = Answer(r.ty, r.errors)
    /\ UNCHANGED <<hierarchy, query>>

AskRange ==
    /\ Asking("check_range_expr")
    /\ LET r == check_range_expr(query.start_ty, query.end_ty)
       IN answer' = Answer(r.ty, r.errors)
    /\ UNCHANGED <<hierarchy, query>>

AskIndex ==
    /\ Asking("check_index_expr")
    /\ LET r == check_index_expr(query.target_ty, query.index_ty)
       IN answer' = Answer(r.ty, r.errors)
    /\ UNCHANGED <<hierarchy, query>>

CheckNext ==
    \/ AskAssignable /\ UNCHANGED notCheck
    \/ AskSubstitute /\ UNCHANGED notCheck
    \/ AskCompatible /\ UNCHANGED notCheck
    \/ AskOverride /\ UNCHANGED notCheck
    \/ AskBinary /\ UNCHANGED notCheck
    \/ AskUnary /\ UNCHANGED notCheck
    \/ AskRange /\ UNCHANGED notCheck
    \/ AskIndex /\ UNCHANGED notCheck

SpecCheck == CheckInit /\ [][CheckNext]_vars

(***************************************************************************)
(* Types and the check pass: properties                                    *)
(***************************************************************************)
\* Class a is class c or inherits from it, directly or through other
\* classes: a path of parent links leads from a to c.
IsSubclass(a, c) ==
    \E p \in SeqsUpTo(ClassIds, MaxClasses) :
        /\ p # <<>>
        /\ p[1] = a
        /\ p[Len(p)] = c
        /\ \A i \in 1..(Len(p) - 1) : hierarchy[p[i]] = p[i + 1]

\* target is a supertype of source (source is a subtype of target): Never is
\* below and Any and Error are compatible with every type, classes follow
\* inheritance, arrays and generic arguments are covariant, functions are
\* contravariant in their parameters and covariant in their result.
RECURSIVE IsSupertype(_, _)
IsSupertype(target, source) ==
    IF source = TyNever THEN TRUE
    ELSE IF target = TyNever THEN FALSE
    ELSE IF {target, source} \cap {TyAny, TyError} # {} THEN TRUE
    ELSE IF target = source THEN TRUE
    ELSE IF target[1] # source[1] THEN FALSE
    ELSE IF target[1] = "Table" THEN IsSubclass(source[2], target[2])
    ELSE IF target[1] = "Array" THEN IsSupertype(target[2], source[2])
    ELSE IF target[1] = "GenericInstance"
    THEN /\ target[2] = source[2]
         /\ Len(target[3]) = Len(source[3])
         /\ \A i \in 1..Len(target[3]) : IsSupertype(target[3][i], source[3][i])
    ELSE IF target[1] = "Function"
    THEN /\ Len(target[2]) = Len(source[2])
         /\ \A i \in 1..Len(target[2]) : IsSupertype(source[2][i], target[2][i])
         /\ IsSupertype(target[3], source[3])
    ELSE FALSE

\* The type with every GenericParam(s), s in the mapping, replaced by
\* mapping[s]: in generic arguments, array elements, function parameters and
\* results, and tuple elements, at any depth.
RECURSIVE Replaced(_, _)
Replaced(ty, mapping) ==
    LET each(types) == [i \in 1..Len(types) |-> Replaced(types[i], mapping)]
    IN IF ty[1] = "GenericParam"
       THEN (IF ty[2] \in DOMAIN mapping THEN mapping[ty[2]] ELSE ty)
       ELSE IF ty[1] = "GenericInstance" THEN TyGenericInstance(ty[2], each(ty[3]))
       ELSE IF ty[1] = "Array" THEN TyArray(Replaced(ty[2], mapping))
       ELSE IF ty[1] = "Function"
       THEN TyFunction(each(ty[2]), Replaced(ty[3], mapping))
       ELSE IF ty[1] = "Tuple" THEN TyTuple(each(ty[2]))
       ELSE ty

Overriding == query.op = "check_override_constraints" /\ answer.done
Mismatches == {i \in 1..Len(answer.errors) :
                  answer.errors[i].kind = "MethodOverrideMismatch"}

\* C11: an override accepted without MethodOverrideMismatch has as many
\* parameters as the parent's method, each of its parameter types is a
\* supertype of the parent's parameter type and its return type a subtype of
\* the parent's return type, the parent's generic parameters substituted.
C11_AcceptedOverrideSound ==
    (Overriding /\ Mismatches = {}) =>
        \A name \in DOMAIN query.child.methods \cap DOMAIN query.parent.methods :
            LET c == query.child.methods[name]
                p == query.parent.methods[name]
                mapping == type_mapping(query.child, query.parent)
            IN /\ Len(c.params) = Len(p.params)
               /\ \A i \in 1..Len(c.params) :
                     IsSupertype(c.params[i], Replaced(p.params[i], mapping))
               /\ IsSupertype(Replaced(p.ret, mapping), c.ret)

\* An override of a generic parent's take(x: T), declared with the parent
\* reference Parent<Table 2> and the parameter type Table 2, was accepted.
C11_Witness ==
    /\ Overriding
    /\ answer.errors = <<>>
    /\ query.parent.generic_params = <<"T">>
    /\ query.child.parent = TyGenericInstance(1, <<TyTable(2)>>)
    /\ query.parent.methods["take"].params = <<TyGenericParam("T")>>
    /\ query.child.methods["take"].params = <<TyTable(2)>>
    /\ query.parent.methods["take"].ret = TyTable(1)
    /\ query.child.methods["take"].ret = TyTable(1)

\* C12: with class 2 a subclass of class 1, the override take(x: class 1) of
\* the parent's take(x: class 2) is reported no MethodOverrideMismatch.
C12_ContravariantOverrideAccepted ==
    ( /\ Overriding
      /\ hierarchy[2] = 1
      /\ query.parent.generic_params = <<>>
      /\ query.parent.methods["take"].params = <<TyTable(2)>>
      /\ query.child.methods["take"].params = <<TyTable(1)>>
      /\ query.parent.methods["take"].ret = query.child.methods["take"].ret )
    => Mismatches = {}

C14_AssignableReflexive ==
    ( /\ query.op = "is_assignable_from"
      /\ answer.done
      /\ query.target = query.source
      /\ query.target # TyError )
    => answer.value

\* C15: an operation with an operand of type Error yields Error and reports
\* no diagnostic.
C15_ErrorAbsorbing ==
    ( /\ answer.done
      /\ \/ query.op = "check_binary_op" /\ TyError \in {query.left, query.right}
         \/ query.op = "check_unary_expr" /\ query.ty = TyError
         \/ query.op = "check_range_expr"
               /\ TyError \in {query.start_ty, query.end_ty}
         \/ query.op = "check_index_expr"
               /\ TyError \in {query.target_ty, query.index_ty} )
    => answer.value = TyError /\ answer.errors = <<>>

\* C20: substitute replaces every occurrence of a mapped generic parameter,
\* wherever it occurs in the type.
C20_SubstituteEverywhere ==
    (query.op = "substitute" /\ answer.done) =>
        answer.value = Replaced(query.self, query.mapping)

\* C16: a class defined in the entry file is instantiated as any other class
\* is: the call of the entry file's class Point ends without a runtime error.
C16_EntryClassInstantiated ==
    (program.kind = "own_constructor" /\ last_call.kind = "constructor")
        => last_call.outcome.t # "Err"

(***************************************************************************)
(* The evaluator: for loops over arrays and ranges                         *)
(***************************************************************************)
\* Value::Array: a handle of a shared array cell.
ArrayV(handle) == [Val("Array") EXCEPT !.n = handle]

MaxBody == 2
MaxEnd == 5

\* The statements of a loop body over the iterator x, the array iterated to
\* both `arr` and `alias`, and the integer `total`:
\*   push(target, 9)      target[index] = 8      total = total + x
\*   if x == equals (continue | break)
PushStmt(target) == [k |-> "push", target |-> target, index |-> 0, then |-> ""]
IndexAssign(target, index) ==
    [k |-> "index_assign", target |-> target, index |-> index, then |-> ""]
AddStmt == [k |-> "add", target |-> "total", index |-> 0, then |-> ""]
IfStmt(equals, then) == [k |-> "if", target |-> "x", index |-> equals, then |-> then]
Statements ==
    {PushStmt("arr"), PushStmt("alias"), IndexAssign("arr", 0),
     IndexAssign("alias", 1), IndexAssign("arr", MaxEnd), AddStmt,
     IfStmt(3, "continue"), IfStmt(1, "break")}
Bodies == SeqsUpTo(Statements, MaxBody) \ {<<>>}
ArrayLiterals == {<<>>, <<IntV(1), IntV(2)>>, <<IntV(3), IntV(1), IntV(2)>>}

\* `arr = [..]; alias = arr; total: int = 0`, then a for loop over arr or
\* over start..end.
LoopInit ==
    /\ \E literal \in ArrayLiterals, body \in Bodies :
          /\ arrays = <<literal>>
          /\ \/ loop = [state |-> "enter", body |-> body, iterable |-> ArrayV(1),
                        literal |-> literal, elements |-> <<>>, next |-> 0, end |-> 0, pc |-> 0,
                        result |-> Ok(Unit)]
             \/ \E start \in 0..1, end \in {0, 2, MaxEnd} :
                   loop = [state |-> "enter", body |-> body,
                           iterable |-> Range(start, end),
                           literal |-> literal, elements |-> <<>>, next |-> 0, end |-> 0, pc |-> 0,
                           result |-> Ok(Unit)]
    /\ scope = ("arr" :> ArrayV(1)) @@ ("alias" :> ArrayV(1)) @@ ("total" :> IntV(0))
    /\ iterated = <<>>
    /\ stdout = <<>>
    /\ ImportIdle
    /\ ResolveIdle
    /\ LexIdle
    /\ EvalIdle
    /\ CheckIdle
    /\ LookupIdle
    /\ ParseIdle
    /\ BorrowIdle
    /\ PipelineIdle
    /\ ScopeIdle

\* A mutant of for_elements: the loop reads the array cell as it is now.
for_elements_live(cells, handle, elements) == cells[handle]

\* eval_for, Value::Array: `let elements = arr_rc.borrow().clone()`; the
\* loop walks this copy.
for_elements(cells, handle, elements) == elements

\* A mutant of in_range: the upper iterated is included.
in_range_inclusive(i, end_i) == i <= end_i

\* eval_for, Value::Range: `for i in start_i..end_i`
in_range(i, end_i) == i < end_i

\* eval_for: the iterable is an array.
eval_for_array ==
    /\ loop.state = "enter"
    /\ loop.iterable.t = "Array"
    /\ loop' = [loop EXCEPT !.state = "iter", !.next = 1,
                            !.elements = arrays[loop.iterable.n]]
    /\ UNCHANGED <<arrays, scope, iterated, stdout>>

\* eval_for: the iterable is a range.
eval_for_range ==
    /\ loop.state = "enter"
    /\ loop.iterable.t = "Range"
    /\ loop' = [loop EXCEPT !.state = "iter", !.next = loop.iterable.n,
                            !.end = loop.iterable.m]
    /\ UNCHANGED <<arrays, scope, iterated, stdout>>

\* The items eval_for has not handed to the body yet.
Items == for_elements(arrays, loop.iterable.n, loop.elements)
HasItem ==
    IF loop.iterable.t = "Array" THEN loop.next <= Len(Items)
    ELSE in_range(loop.next, loop.end)
Item_ == IF loop.iterable.t = "Array" THEN Items[loop.next] ELSE IntV(loop.next)

\* eval_loop_body: a fresh environment that binds the iterator, then the
\* body's block.
eval_loop_body_item ==
    /\ loop.state = "iter"
    /\ HasItem
    /\ scope' = ("x" :> Item_) @@ scope
    /\ iterated' = Append(iterated, Item_)
    /\ loop' = [loop EXCEPT !.state = "body", !.pc = 1, !.next = @ + 1]
    /\ UNCHANGED <<arrays, stdout>>

\* execute_block is at a statement of the kind.
AtStmt(kind) ==
    /\ loop.state = "body"
    /\ loop.pc <= Len(loop.body)
    /\ loop.body[loop.pc].k = kind
Stmt == loop.body[loop.pc]
\* execute_block: Ok goes on with the next statement, anything else ends the
\* block.
StmtResult(r) ==
    IF r.t = "Ok" THEN [loop EXCEPT !.pc = @ + 1]
    ELSE [loop EXCEPT !.state = "result", !.result = r]

\* native_array_push: arr_cell.borrow_mut().push(item)
native_array_push ==
    /\ AtStmt("push")
    /\ arrays' = [arrays EXCEPT ![scope[Stmt.target].n] = Append(@, IntV(9))]
    /\ loop' = StmtResult(Ok(Unit))
    /\ UNCHANGED <<scope, iterated, stdout>>

\* eval_assignment, ExpressionData::Index
eval_assignment_index ==
    /\ AtStmt("index_assign")
    /\ LET h == scope[Stmt.target].n
           i == Stmt.index
       IN IF i >= 0 /\ i < Len(arrays[h])
          THEN /\ arrays' = [arrays EXCEPT ![h][i + 1] = IntV(8)]
               /\ loop' = StmtResult(Ok(Unit))
          ELSE /\ loop' = StmtResult(Err("IndexOutOfBounds"))
               /\ UNCHANGED arrays
    /\ UNCHANGED <<scope, iterated, stdout>>

\* eval_assignment, ExpressionData::Identifier, of total + x: the iterator
\* is an Int in every loop here.
eval_assignment_identifier ==
    /\ AtStmt("add")
    /\ scope' = [scope EXCEPT !["total"] = IntV(scope["total"].n + scope["x"].n)]
    /\ loop' = StmtResult(Ok(Unit))
    /\ UNCHANGED <<arrays, iterated, stdout>>

\* eval_if with the block `continue` or `break`
eval_if_signal ==
    /\ AtStmt("if")
    /\ loop' = StmtResult(IF scope["x"].n = Stmt.index
                          THEN (IF Stmt.then = "continue" THEN Continue ELSE Break)
                          ELSE Ok(Unit))
    /\ UNCHANGED <<arrays, scope, iterated, stdout>>

\* execute_block: the body's statements are done.
loop_block_done ==
    /\ loop.state = "body"
    /\ loop.pc > Len(loop.body)
    /\ loop' = [loop EXCEPT !.state = "result", !.result = Ok(Unit)]
    /\ UNCHANGED <<arrays, scope, iterated, stdout>>

\* eval_for: `match result`
eval_for_match ==
    /\ loop.state = "result"
    /\ loop' = IF loop.result.t \in {"Ok", "Continue"}
               THEN [loop EXCEPT !.state = "iter"]
               ELSE IF loop.result.t = "Break"
               THEN [loop EXCEPT !.state = "done", !.result = Ok(Unit)]
               ELSE [loop EXCEPT !.state = "done"]
    /\ UNCHANGED <<arrays, scope, iterated, stdout>>

\* eval_for: no item is left.
eval_for_end ==
    /\ loop.state = "iter"
    /\ ~HasItem
    /\ loop' = [loop EXCEPT !.state = "done", !.result = Ok(Unit)]
    /\ UNCHANGED <<arrays, scope, iterated, stdout>>

\* native_print: print(total) after the loop; an error of the loop ends main
\* before it.
native_print ==
    /\ loop.state = "done"
    /\ loop.result.t = "Ok"
    /\ stdout' = Append(stdout, scope["total"].n)
    /\ loop' = [loop EXCEPT !.state = "printed"]
    /\ UNCHANGED <<arrays, scope, iterated>>

LoopNext ==
    \/ eval_for_array /\ UNCHANGED notLoop
    \/ eval_for_range /\ UNCHANGED notLoop
    \/ eval_loop_body_item /\ UNCHANGED notLoop
    \/ native_array_push /\ UNCHANGED notLoop
    \/ eval_assignment_index /\ UNCHANGED notLoop
    \/ eval_assignment_identifier /\ UNCHANGED notLoop
    \/ eval_if_signal /\ UNCHANGED notLoop
    \/ loop_block_done /\ UNCHANGED notLoop
    \/ eval_for_match /\ UNCHANGED notLoop
    \/ eval_for_end /\ UNCHANGED notLoop
    \/ native_print /\ UNCHANGED notLoop

SpecLoop == LoopInit /\ [][LoopNext]_vars

(***************************************************************************)
(* For loops: properties                                                   *)
(***************************************************************************)
\* The loop has ended and main has gone on after it.
LoopEnded == loop.state \in {"done", "printed"} /\ loop.result.t = "Ok"
\* The body holds a `break`.
BodyBreaks == \E k \in 1..Len(loop.body) : loop.body[k].then = "break"

\* C17: a for loop over an array binds its iterator to the elements the
\* array held when the loop was entered, in order, whatever the body pushes
\* to the array or assigns to its elements, under either of its names; a loop
\* that ends without break or error has bound every one of them, once.
C17_ForIteratesSnapshot ==
    (loop.state # "off" /\ loop.iterable.t = "Array") =>
        /\ Len(iterated) <= Len(loop.literal)
        /\ \A i \in 1..Len(iterated) : iterated[i] = loop.literal[i]
        /\ (LoopEnded /\ ~BodyBreaks) => iterated = loop.literal

\* A loop over [3, 1, 2] whose body pushes through the alias and assigns
\* element 0 has ended: it ran three times over 3, 1, 2 and left the array
\* as [8, 1, 2, 9, 9, 9].
C17_Witness ==
    /\ loop.state = "printed"
    /\ loop.iterable.t = "Array"
    /\ loop.body = <<PushStmt("alias"), IndexAssign("arr", 0)>>
    /\ iterated = <<IntV(3), IntV(1), IntV(2)>>
    /\ arrays[1] = <<IntV(8), IntV(1), IntV(2), IntV(9), IntV(9), IntV(9)>>

\* The integers start, start + 1, .. below end.
RangeItems(start, end) ==
    [i \in 1..(IF end > start THEN end - start ELSE 0) |-> IntV(start + i - 1)]
RECURSIVE SumOf(_)
SumOf(S) == IF S = {} THEN 0
            ELSE LET n == CHOOSE n \in S : TRUE IN n + SumOf(S \ {n})

\* C18: a for loop over start..end that ends without break or error has run
\* its body once for each integer from start up to and excluding end, in
\* ascending order, and `continue` skips only the rest of its iteration: the
\* body `if x == 3 continue; total = total + x` leaves in total, and print
\* writes, the sum of those integers other than 3 (7 for 0..5).
C18_ForRangeExclusive ==
    (loop.state # "off" /\ loop.iterable.t = "Range") =>
        /\ (LoopEnded /\ ~BodyBreaks) =>
              iterated = RangeItems(loop.iterable.n, loop.iterable.m)
        /\ (loop.state = "printed" /\ loop.body = <<IfStmt(3, "continue"), AddStmt>>) =>
              stdout = <<SumOf((loop.iterable.n..(loop.iterable.m - 1)) \ {3})>>

\* Scenario S6 has run: the loop over 0..5 and print has written 7.
C18_Witness ==
    /\ loop.state = "printed"
    /\ loop.iterable = Range(0, MaxEnd)
    /\ loop.body = <<IfStmt(3, "continue"), AddStmt>>
    /\ iterated = <<IntV(0), IntV(1), IntV(2), IntV(3), IntV(4)>>
    /\ stdout = <<7>>

(***************************************************************************)
(* The evaluator: method lookup along the prototype chain                  *)
(***************************************************************************)
MaxExamined == 6

\* The number of classes on the declared prototype chain above a class.
RECURSIVE depth(_, _)
depth(protos, c) == IF protos[c] = 0 THEN 0 ELSE 1 + depth(protos, protos[c])

\* run_top_level has bound every class's name to its Table; the analyzer
\* accepted the declarations, so the declared prototypes have no cycle. A
\* class is named by its id.
LookupInit ==
    /\ prototypes \in Hierarchies
    /\ defines \in SUBSET ClassIds
    /\ class_names = [c \in ClassIds |-> c]
    /\ walk = [state |-> "idle", start |-> 0, current |-> 0, examined |-> 0]
    /\ ImportIdle
    /\ ResolveIdle
    /\ LexIdle
    /\ EvalIdle
    /\ CheckIdle
    /\ LoopIdle
    /\ ParseIdle
    /\ BorrowIdle
    /\ PipelineIdle
    /\ ScopeIdle

\* The declared class `child` is `target` or inherits from it (is_subtype
\* over the analyzer's tables).
RECURSIVE declared_subtype(_, _)
declared_subtype(child, target) ==
    IF child = target THEN TRUE
    ELSE IF prototypes[child] = 0 THEN FALSE
    ELSE declared_subtype(prototypes[child], target)

\* eval_assignment, ExpressionData::Identifier, of `name = value` where both
\* are class names: Environment::assign rebinds the name in the module
\* environment. check_variable_assignment accepts it when the class `value`
\* is compatible with the class `name` was declared as.
eval_assignment_class_name ==
    /\ walk.state = "idle"
    /\ \E name \in ClassIds, value \in ClassIds :
          /\ declared_subtype(value, name)
          /\ class_names' = [class_names EXCEPT ![name] = class_names[value]]
    /\ UNCHANGED <<prototypes, defines, walk>>

\* get_parent_table_id: the Table the prototype's name is bound to in the
\* module environment, 0 for None.
get_parent_table_id(table_id) ==
    IF prototypes[table_id] = 0 THEN 0 ELSE class_names[prototypes[table_id]]

\* find_method_in_chain(start_id, method_name) is called for an instance of
\* a class.
find_method_in_chain ==
    /\ walk.state = "idle"
    /\ \E start_id \in ClassIds :
          walk' = [state |-> "loop", start |-> start_id, current |-> start_id,
                   examined |-> 0]
    /\ UNCHANGED <<prototypes, defines, class_names>>

\* find_method_in_chain: one turn of its loop.
find_method_in_chain_loop ==
    /\ walk.state = "loop"
    /\ walk.examined < MaxExamined
    /\ walk' = IF walk.current \in defines
               THEN [walk EXCEPT !.state = "found", !.examined = @ + 1]
               ELSE IF get_parent_table_id(walk.current) # 0
               THEN [walk EXCEPT !.current = get_parent_table_id(walk.current),
                                 !.examined = @ + 1]
               ELSE [walk EXCEPT !.state = "none", !.examined = @ + 1]
    /\ UNCHANGED <<prototypes, defines, class_names>>

LookupNext ==
    \/ eval_assignment_class_name /\ UNCHANGED notLookup
    \/ find_method_in_chain /\ UNCHANGED notLookup
    \/ find_method_in_chain_loop /\ UNCHANGED notLookup

SpecLookup == LookupInit /\ [][LookupNext]_vars

\* C19: a method lookup examines at most depth + 1 classes, depth the length
\* of the prototype chain of the class it starts from.
C19_LookupBounded ==
    walk.state \in {"loop", "found", "none"} =>
        walk.examined <= depth(prototypes, walk.start) + 1

(***************************************************************************)
(* The parser: parse_program and its error recovery                        *)
(***************************************************************************)
MaxTokens == 4
\* The token kinds of the parsed files. Without `(` no function definition
\* and without `:` or `=` no top-level field is well-formed; use statements
\* and classes without a body are.
ParsedKinds == {"Use", "Class", "Fn", "Identifier", "Dot", "Int", "Newline"}

\* TokenStream::peek(0).kind at a position: EOF after the last token.
peek_kind(pos) == IF pos <= Len(token_stream) THEN token_stream[pos] ELSE "EOF"

\* A parser's result: Ok with the position after what it consumed, or Err.
ParseOk(pos) == [ok |-> TRUE, pos |-> pos]
ParseErr(pos) == [ok |-> FALSE, pos |-> pos]

\* Parser::expect(kind) at a position.
expect(kind, pos) == IF peek_kind(pos) = kind THEN ParseOk(pos + 1) ELSE ParseErr(pos)

\* parse_use_statement, from the path segments on: identifiers separated by
\* dots.
RECURSIVE use_path(_)
use_path(pos) ==
    IF ~expect("Identifier", pos).ok THEN ParseErr(pos)
    ELSE IF peek_kind(pos + 1) = "Dot" THEN use_path(pos + 2)
    ELSE ParseOk(pos + 1)

\* parse_use_statement: `use`, an optional anchor `.`, the path.
parse_use_statement(pos) ==
    IF ~expect("Use", pos).ok THEN ParseErr(pos)
    ELSE IF peek_kind(pos + 1) = "Dot" THEN use_path(pos + 2)
    ELSE use_path(pos + 1)

\* parse_class_definition: `class Name`, an optional line break; without an
\* Indent the class has no body.
parse_class_definition(pos) ==
    IF ~expect("Class", pos).ok \/ ~expect("Identifier", pos + 1).ok
    THEN ParseErr(pos)
    ELSE IF peek_kind(pos + 2) = "Newline" THEN ParseOk(pos + 3)
    ELSE ParseOk(pos + 2)

\* parse_function_definition: `fn name`, then parse_param_list expects `(`.
parse_function_definition(pos) ==
    IF ~expect("Fn", pos).ok \/ ~expect("Identifier", pos + 1).ok
    THEN ParseErr(pos)
    ELSE expect("LeftParen", pos + 2)

\* parse_top_level_field: the name; no token of the parsed files is the
\* `:` or `=` that must follow it ("Top-level variable must have a type
\* annotation or an initial value").
parse_top_level_field(pos) ==
    IF ~expect("Identifier", pos).ok THEN ParseErr(pos) ELSE ParseErr(pos + 1)

\* parse_program: `while self.match_token(&[TokenKind::Newline])`
RECURSIVE skip_newlines(_)
skip_newlines(pos) ==
    IF peek_kind(pos) = "Newline" THEN skip_newlines(pos + 1) ELSE pos

\* synchronize, after its first advance: up to the next class, fn or use.
RECURSIVE synchronize(_)
synchronize(pos) ==
    IF peek_kind(pos) \in {"EOF", "Class", "Fn", "Use"} THEN pos
    ELSE synchronize(pos + 1)

ParseInit ==
    /\ token_stream \in SeqsUpTo(ParsedKinds, MaxTokens)
    /\ parser = [state |-> "loop", pos |-> 1, definitions |-> <<>>,
                 errors |-> <<>>, failed |-> <<>>]
    /\ ImportIdle
    /\ ResolveIdle
    /\ LexIdle
    /\ EvalIdle
    /\ CheckIdle
    /\ LoopIdle
    /\ LookupIdle
    /\ BorrowIdle
    /\ PipelineIdle
    /\ ScopeIdle

\* parse_program is at the start of an item of the kind; `failed` notes the
\* positions of the items whose parser failed.
AtDefinition(kind) ==
    /\ parser.state = "loop"
    /\ peek_kind(skip_newlines(parser.pos)) = kind
ItemStart == skip_newlines(parser.pos)

\* parse_program: `let item = self.parse_..()?; definitions.push(item)`:
\* the item's parser failed and `?` returns its error from parse_program, or
\* the item joins the definitions.
Parsed(kind, r) ==
    IF r.ok
    THEN [parser EXCEPT !.pos = r.pos, !.definitions = Append(@, <<kind, ItemStart>>)]
    ELSE [parser EXCEPT !.state = "Err", !.pos = r.pos,
                        !.failed = Append(@, ItemStart)]

parse_program_use ==
    /\ AtDefinition("Use")
    /\ parser' = Parsed("Use", parse_use_statement(ItemStart))
    /\ UNCHANGED token_stream

parse_program_class ==
    /\ AtDefinition("Class")
    /\ parser' = Parsed("Table", parse_class_definition(ItemStart))
    /\ UNCHANGED token_stream

parse_program_fn ==
    /\ AtDefinition("Fn")
    /\ parser' = Parsed("Function", parse_function_definition(ItemStart))
    /\ UNCHANGED token_stream

parse_program_field ==
    /\ AtDefinition("Identifier")
    /\ parser' = Parsed("Field", parse_top_level_field(ItemStart))
    /\ UNCHANGED token_stream

\* parse_program: no item starts with this token: the error is recorded and
\* synchronize skips ahead.
parse_program_recover ==
    /\ parser.state = "loop"
    /\ peek_kind(ItemStart) \notin {"Use", "Class", "Fn", "Identifier", "EOF"}
    /\ parser' = [parser EXCEPT !.errors = Append(@, ItemStart),
                                !.failed = Append(@, ItemStart),
                                !.pos = synchronize(ItemStart + 1)]
    /\ UNCHANGED token_stream

\* parse_program: the end of the file.
parse_program_end ==
    /\ AtDefinition("EOF")
    /\ parser' = [parser EXCEPT !.state = "Ok", !.pos = ItemStart]
    /\ UNCHANGED token_stream

ParseNext ==
    \/ parse_program_use /\ UNCHANGED notParse
    \/ parse_program_class /\ UNCHANGED notParse
    \/ parse_program_fn /\ UNCHANGED notParse
    \/ parse_program_field /\ UNCHANGED notParse
    \/ parse_program_recover /\ UNCHANGED notParse
    \/ parse_program_end /\ UNCHANGED notParse

SpecParse == ParseInit /\ [][ParseNext]_vars

\* C21: when parse_program has returned, every item whose parsing failed
\* has its error among the recorded errors, one each, and the parser went on
\* to the end of the file: each class and use statement after an error that
\* parses is among the definitions.
C21_ParseErrorsRecovered ==
    parser.state \in {"Ok", "Err"} =>
        /\ parser.errors = parser.failed
        /\ parser.state = "Ok"
        /\ \A pos \in 1..Len(token_stream) :
              ( /\ parser.failed # <<>>
                /\ pos > parser.failed[1]
                /\ token_stream[pos] = "Class"
                /\ parse_class_definition(pos).ok )
              => \E d \in 1..Len(parser.definitions) :
                    parser.definitions[d] = <<"Table", pos>>

(***************************************************************************)
(* The evaluator: runtime errors                                           *)
(***************************************************************************)
\* The evaluator is returning a runtime error towards the driver, or has
\* handed it over.
Failing ==
    \/ ctl.m \in {"ret", "halt"} /\ ctl.r.t = "Err"
    \/ ctl.m = "topret" /\ ~ctl.ok
ErrorKind == IF ctl.m = "topret" THEN ctl.err ELSE ctl.r.err

\* C22: once an evaluation has produced Err(k), every further step hands the
\* same k on towards the driver and nothing else happens: no variable is
\* defined or assigned, no instance created, no module cached, no call made.
C22_FirstErrorAborts ==
    [][Failing =>
          /\ Failing'
          /\ ErrorKind' = ErrorKind
          /\ envs' = envs
          /\ instances' = instances
          /\ module_cache' = module_cache
          /\ ncalls' = ncalls]_vars

\* The driver has been handed UndefinedVariable, produced in a function the
\* initialiser of a field of an imported module calls.
C22_Witness ==
    /\ ctl.m = "halt"
    /\ ctl.r = Err("UndefinedVariable")
    /\ program.top_call
    /\ CalleeBodies[program.body] = <<Id(LibFile, "nothing")>>

(***************************************************************************)
(* The resolve pass: resolve_table, fill_from_parent, and the check pass   *)
(* that follows it                                                         *)
(***************************************************************************)
MaxImporters == 2   \* classes declared in a file that imports another

\* The one method name the classes declare.
MethodName == "m"

\* TableId(FileId, Symbol)
TableId(file, sym) == <<file, sym>>
file_id(id) == id[1]
symbol(id) == id[2]

\* Option::None / Option::Some
None == <<>>
Some(x) == <<x>>

\* TableInfo.parent after the collect pass. resolve_ast_type turns the
\* prototype into Type::Table of a class of this file (declared or not: it
\* never checks) or of an imported module, into a GenericInstance, or into a
\* type no class can inherit from (int here; Type::Error likewise).
ParentTypes(file, imported) ==
    {None, Some(TyInt), Some(TyGenericInstance(TableId(file, 1), <<TyInt>>))}
    \cup {Some(TyTable(TableId(file, c))) : c \in ClassIds \cup {UndeclaredClass}}
    \cup {Some(TyTable(TableId(f, c))) : <<f, c>> \in imported \X ClassIds}
    \cup {Some(TyGenericInstance(TableId(f, 1), <<TyInt>>)) : f \in imported}

\* What a class declares of the method: nothing, its signature alone, or a
\* method with a body.
MethodChoices == {"none", "abstract", "concrete"}

\* collect_table_definition: the TableInfo of class c of a file. The first
\* class is generic in T; every other class declares the field SharedField.
\* A span stands for the declaration it was taken from.
OwnFields(file, c) ==
    [n \in {c} \cup (IF c > 1 THEN {SharedField} ELSE {}) |->
        [ty |-> IF c = 1 /\ n = c THEN TyGenericParam("T") ELSE TyInt,
         span |-> TableId(file, c)]]

\* collect_method_signature: is_abstract = method.body.is_none()
collect_method_signature(file, c, choice) ==
    [params |-> <<IF c = 1 THEN TyGenericParam("T") ELSE TyInt>>,
     ret |-> TyUnit,
     is_abstract |-> (choice = "abstract"),
     span |-> TableId(file, c)]

collect_table_definition(file, c, parent, choice) ==
    [parent |-> parent,
     generic_params |-> IF c = 1 THEN <<"T">> ELSE <<>>,
     fields |-> OwnFields(file, c),
     methods |-> IF choice = "none" THEN <<>>
                 ELSE (MethodName :> collect_method_signature(file, c, choice))]

\* The analysed file is the entry file or a module the entry file imports;
\* in both cases the resolve pass starts from what collect_program left.
ResolveInit ==
    /\ \E file \in {EntryFile, LibFile} :
       \E parents \in [ClassIds -> ParentTypes(file, {})],
          choices \in [ClassIds -> MethodChoices] :
          /\ choices[1] # "none"
          /\ choices[2] # "abstract"
          /\ \A c \in ClassIds : c > 2 => choices[c] = "none"
          /\ analysed_file = file
          /\ tables = [c \in ClassIds |->
                collect_table_definition(file, c, parents[c], choices[c])]
    /\ module_tables = <<>>
    /\ todo = ClassIds
    /\ resolved = {}
    /\ visiting = {}
    /\ calls = <<>>
    /\ rctl = [op |-> "idle", id |-> 0, ok |-> TRUE]
    /\ rerrors = <<>>
    /\ ImportIdle
    /\ LexIdle
    /\ EvalIdle
    /\ CheckIdle
    /\ LoopIdle
    /\ LookupIdle
    /\ ParseIdle
    /\ BorrowIdle
    /\ PipelineIdle
    /\ ScopeIdle

RCall(id) == [op |-> "call", id |-> id, ok |-> TRUE]
RRet(ok) == [op |-> "ret", id |-> 0, ok |-> ok]
RError(kind, id) == [kind |-> kind, name |-> id]

\* fetch_table_info: a table of the analysed file, or of a module whose
\* ModuleInfo is in Context.modules.
fetch_table_info(id) ==
    IF file_id(id) = analysed_file
    THEN (IF symbol(id) \in DOMAIN tables THEN Some(tables[symbol(id)]) ELSE None)
    ELSE IF file_id(id) \notin DOMAIN module_tables THEN None
    ELSE IF symbol(id) \notin DOMAIN module_tables[file_id(id)] THEN None
    ELSE Some(module_tables[file_id(id)][symbol(id)])

\* fill_from_parent: step 2, the mapping from the parent's generic
\* parameters to the arguments of the GenericInstance.
generic_mapping(parent_type, parent_info) ==
    IF parent_type[1] # "GenericInstance" THEN <<>>
    ELSE LET params == parent_info.generic_params
         IN [s \in {params[i] : i \in 1..Len(params)} |->
                parent_type[3][CHOOSE i \in 1..Len(params) : params[i] = s]]

\* fill_from_parent: every field and every method of the parent that the
\* child does not define is copied into the child, its types substituted.
\* The result holds the tables and the diagnostics reported.
fill_from_parent(child, parent_type) ==
    LET parent_info == fetch_table_info(parent_type[2])[1]
        mapping == generic_mapping(parent_type, parent_info)
        cf == tables[child].fields
        pf == parent_info.fields
        cm == tables[child].methods
        pm == parent_info.methods
    IN IF /\ parent_type[1] = "GenericInstance"
          /\ Len(parent_type[3]) # Len(parent_info.generic_params)
       THEN [ok |-> FALSE, tables |-> tables,
             errors |-> <<RError("GenericArgumentCountMismatch", parent_type[2])>>]
       ELSE [ok |-> TRUE,
             errors |-> <<>>,
             tables |->
               [tables EXCEPT
                  ![child].fields =
                     [n \in DOMAIN cf \cup DOMAIN pf |->
                        IF n \in DOMAIN cf THEN cf[n]
                        ELSE [ty |-> substitute(pf[n].ty, mapping),
                              span |-> pf[n].span]],
                  ![child].methods =
                     [n \in DOMAIN cm \cup DOMAIN pm |->
                        IF n \in DOMAIN cm THEN cm[n]
                        ELSE [params |-> [i \in 1..Len(pm[n].params) |->
                                            substitute(pm[n].params[i], mapping)],
                              ret |-> substitute(pm[n].ret, mapping),
                              is_abstract |-> pm[n].is_abstract,
                              span |-> pm[n].span]]]]

\* resolve_hierarchy's loop takes the next table id; the ids come from the
\* keys of a HashMap, in no fixed order.
ResolveNextTable ==
    /\ rctl.op = "idle"
    /\ \E id \in todo :
          /\ todo' = todo \ {id}
          /\ rctl' = RCall(id)
    /\ UNCHANGED <<tables, resolved, visiting, calls, rerrors, analysed_file,
                   module_tables>>

\* resolve_table from its entry to its recursive call or to its return.
ResolveEnter ==
    /\ rctl.op = "call"
    /\ LET id == rctl.id
           parent == tables[id].parent
       IN
       IF id \in resolved THEN
          /\ rctl' = RRet(TRUE)
          /\ UNCHANGED <<tables, resolved, visiting, calls, rerrors>>
       ELSE IF id \in visiting THEN
          /\ rerrors' = Append(rerrors,
                           RError("CyclicInheritance", TableId(analysed_file, id)))
          /\ rctl' = RRet(FALSE)
          /\ UNCHANGED <<tables, resolved, visiting, calls>>
       ELSE IF parent = None THEN
          \* visiting.insert; no parent; visiting.remove; resolved.insert
          /\ resolved' = resolved \cup {id}
          /\ rctl' = RRet(TRUE)
          /\ UNCHANGED <<tables, visiting, calls, rerrors>>
       ELSE IF parent[1][1] \notin {"Table", "GenericInstance"} THEN
          \* visiting.insert; visiting.remove; return Err: nothing is reported
          /\ rctl' = RRet(FALSE)
          /\ UNCHANGED <<tables, resolved, visiting, calls, rerrors>>
       ELSE IF fetch_table_info(parent[1][2]) = None THEN
          /\ rerrors' = Append(rerrors, RError("UndefinedSymbol", parent[1][2]))
          /\ rctl' = RRet(FALSE)
          /\ UNCHANGED <<tables, resolved, visiting, calls>>
       ELSE IF file_id(parent[1][2]) = analysed_file THEN
          \* the parent is in the current file: resolve it first
          /\ visiting' = visiting \cup {id}
          /\ calls' = Append(calls, id)
          /\ rctl' = RCall(symbol(parent[1][2]))
          /\ UNCHANGED <<tables, resolved, rerrors>>
       ELSE
          \* the parent is in a module analysed before: fill from it at once
          LET filled == fill_from_parent(id, parent[1])
          IN /\ tables' = filled.tables
             /\ rerrors' = rerrors \o filled.errors
             /\ resolved' = IF filled.ok THEN resolved \cup {id} ELSE resolved
             /\ rctl' = RRet(filled.ok)
             /\ UNCHANGED <<visiting, calls>>
    /\ UNCHANGED <<todo, analysed_file, module_tables>>

\* A mutant of LeaveVisiting: the id stays when the parent failed to resolve.
LeaveVisiting_ok_only(set, id, ok) == IF ok THEN set \ {id} ELSE set

\* resolve_table: visiting.remove(&table_id), before `return Err(())` as
\* before resolved.insert.
LeaveVisiting(set, id, ok) == set \ {id}

\* The recursive call has returned into the resolve_table call that made it.
ResolveReturn ==
    /\ rctl.op = "ret"
    /\ calls # <<>>
    /\ LET id == Top(calls)
           filled == fill_from_parent(id, tables[id].parent[1])
       IN /\ calls' = Pop(calls)
          /\ visiting' = LeaveVisiting(visiting, id, rctl.ok)
          /\ IF rctl.ok
             THEN /\ tables' = filled.tables
                  /\ rerrors' = rerrors \o filled.errors
                  /\ resolved' = IF filled.ok THEN resolved \cup {id} ELSE resolved
                  /\ rctl' = RRet(filled.ok)
             ELSE /\ rctl' = RRet(FALSE)
                  /\ UNCHANGED <<tables, resolved, rerrors>>
    /\ UNCHANGED <<todo, analysed_file, module_tables>>

\* resolve_hierarchy drops the result: `let _ = self.resolve_table(..)`.
ResolveTableDone ==
    /\ rctl.op = "ret"
    /\ calls = <<>>
    /\ rctl' = [op |-> IF todo = {} THEN "done" ELSE "idle", id |-> 0, ok |-> TRUE]
    /\ UNCHANGED <<tables, todo, resolved, visiting, calls, rerrors,
                   analysed_file, module_tables>>

\* analyze_module_file after the nested analyzer's resolve_hierarchy, and
\* collect_use_statement after it: the ModuleInfo is cached when the nested
\* analyzer reported nothing, its errors are handed to the importing
\* analyzer, and the importing file's collect pass goes on to its classes
\* and then to its own resolve pass.
analyze_module_file_done ==
    /\ rctl.op = "done"
    /\ analysed_file = LibFile
    /\ module_tables' = IF rerrors = <<>> THEN (LibFile :> tables) ELSE <<>>
    /\ analysed_file' = EntryFile
    /\ \E parents \in [1..MaxImporters -> ParentTypes(EntryFile, {LibFile})],
          choice \in {"none", "concrete"} :
          tables' = [c \in 1..MaxImporters |->
                        collect_table_definition(EntryFile, c, parents[c],
                            IF c = 1 THEN choice ELSE "none")]
    /\ todo' = 1..MaxImporters
    /\ resolved' = {}
    /\ visiting' = {}
    /\ rctl' = [op |-> "idle", id |-> 0, ok |-> TRUE]
    /\ UNCHANGED <<calls, rerrors>>

\* check_abstract_implementation: one diagnostic for every method of the
\* flattened table whose signature is abstract.
check_abstract_implementation(c) ==
    IF MethodName \in DOMAIN tables[c].methods
       /\ tables[c].methods[MethodName].is_abstract
    THEN <<RError("MissingAbstractImplementation", TableId(analysed_file, c))>>
    ELSE <<>>

RECURSIVE check_tables(_, _)
check_tables(c, last) ==
    IF c > last THEN <<>>
    ELSE check_abstract_implementation(c) \o check_tables(c + 1, last)

\* The driver runs check_program on the entry file after resolve_hierarchy,
\* whatever the earlier passes reported: check_table_definition for every
\* class, in the order of the file.
check_program ==
    /\ rctl.op = "done"
    /\ analysed_file = EntryFile
    /\ rerrors' = rerrors \o check_tables(1, Cardinality(DOMAIN tables))
    /\ rctl' = [op |-> "checked", id |-> 0, ok |-> TRUE]
    /\ UNCHANGED <<tables, todo, resolved, visiting, calls, analysed_file,
                   module_tables>>

ResolveNext ==
    \/ ResolveNextTable /\ UNCHANGED notResolve
    \/ ResolveEnter /\ UNCHANGED notResolve
    \/ ResolveReturn /\ UNCHANGED notResolve
    \/ ResolveTableDone /\ UNCHANGED notResolve
    \/ analyze_module_file_done /\ UNCHANGED notResolve
    \/ check_program /\ UNCHANGED notResolve

SpecResolve == ResolveInit /\ [][ResolveNext]_vars

RECURSIVE CountKind(_, _)
CountKind(errs, kind) ==
    IF errs = <<>> THEN 0
    ELSE (IF Head(errs).kind = kind THEN 1 ELSE 0) + CountKind(Tail(errs), kind)

\* `class X : Y` and `class Y : X` (X is class 1, Y is class 2).
MutualInheritance ==
    /\ tables[1].parent = Some(TyTable(TableId(analysed_file, 2)))
    /\ tables[2].parent = Some(TyTable(TableId(analysed_file, 1)))

\* C3: for `class X : Y`, `class Y : X` the resolve pass ends with exactly
\* one CyclicInheritance diagnostic.
C3_OneCyclicInheritance ==
    (rctl.op = "done" /\ MutualInheritance)
        => CountKind(rerrors, "CyclicInheritance") = 1


(***************************************************************************)
(* The resolve pass and the check pass: properties                         *)
(***************************************************************************)
\* The longest chain of classes: a file's own and those of the module.
MaxDepth == MaxClasses + MaxImporters

\* The class a TableInfo names as its parent.
ParentId(info) ==
    IF info.parent # None /\ info.parent[1][1] \in {"Table", "GenericInstance"}
    THEN Some(info.parent[1][2])
    ELSE None

\* The class declares the method itself: its table holds the entry that
\* was taken from the class's own definition.
Declares(id) ==
    LET info == fetch_table_info(id)
    IN /\ info # None
       /\ MethodName \in DOMAIN info[1].methods
       /\ info[1].methods[MethodName].span = id

\* The nearest declaration of the method among the proper ancestors of a
\* class, following the parents the definitions name, across modules.
RECURSIVE Inherited(_, _)
Inherited(id, n) ==
    LET info == fetch_table_info(id)
        p == ParentId(info[1])
    IN IF n = 0 \/ info = None THEN None
       ELSE IF p = None THEN None
       ELSE IF fetch_table_info(p[1]) = None THEN None
       ELSE IF Declares(p[1])
       THEN Some(fetch_table_info(p[1])[1].methods[MethodName])
       ELSE Inherited(p[1], n - 1)

\* The class inherits an abstract method that neither it nor a nearer
\* ancestor overrides.
InheritsAbstract(id) ==
    /\ ~Declares(id)
    /\ Inherited(id, MaxDepth) # None
    /\ Inherited(id, MaxDepth)[1].is_abstract

Reported(kind, id) ==
    \E i \in 1..Len(rerrors) : rerrors[i] = RError(kind, id)

\* C23: a class that inherits, directly or through several levels, an
\* abstract method that neither it nor a nearer ancestor overrides is
\* reported with MissingAbstractImplementation by the check pass. Checked for
\* the programs in which no other diagnostic was reported.
C23_MissingAbstractReported ==
    (/\ rctl.op = "checked"
     /\ \A i \in 1..Len(rerrors) : rerrors[i].kind = "MissingAbstractImplementation")
        => \A c \in DOMAIN tables :
              InheritsAbstract(TableId(analysed_file, c))
                 => Reported("MissingAbstractImplementation",
                             TableId(analysed_file, c))

\* The classes reached from a class by parent links within the analysed
\* file, in at most n steps.
RECURSIVE Ancestors(_, _)
Ancestors(c, n) ==
    LET p == ParentId(tables[c])
    IN IF n = 0 \/ p = None THEN {}
       ELSE IF file_id(p[1]) # analysed_file \/ symbol(p[1]) \notin DOMAIN tables
       THEN {}
       ELSE {symbol(p[1])} \cup Ancestors(symbol(p[1]), n - 1)

Acyclic == \A c \in DOMAIN tables : c \notin Ancestors(c, MaxDepth)

\* The entries of a flattened table that the class declared itself.
Own(id, entries) ==
    [n \in {k \in DOMAIN entries : entries[k].span = id} |-> entries[n]]

\* A class's own entries, and the parent's entries under the names the
\* class does not declare, `inherit` applied to each.
Merged(own, parent_entries, inherit(_)) ==
    [n \in DOMAIN own \cup DOMAIN parent_entries |->
        IF n \in DOMAIN own THEN own[n] ELSE inherit(parent_entries[n])]

\* C24: after resolve_hierarchy over an acyclic hierarchy (one the pass
\* reported nothing for), the field table and the method table of every
\* class with a parent are the class's own declarations plus the entries of
\* the parent's flattened tables under the names the class does not declare,
\* with the parent's generic parameters replaced by the arguments.
C24_FlattenedExactly ==
    (rctl.op = "done" /\ Acyclic /\ rerrors = <<>>)
        => \A c \in DOMAIN tables :
              LET id == TableId(analysed_file, c)
                  p == ParentId(tables[c])
                  parent_info == fetch_table_info(p[1])[1]
                  mapping == generic_mapping(tables[c].parent[1], parent_info)
                  field(f) == [ty |-> Replaced(f.ty, mapping), span |-> f.span]
                  method(m) ==
                      [params |-> [i \in 1..Len(m.params) |->
                                      Replaced(m.params[i], mapping)],
                       ret |-> Replaced(m.ret, mapping),
                       is_abstract |-> m.is_abstract,
                       span |-> m.span]
              IN (p # None /\ fetch_table_info(p[1]) # None)
                    => /\ tables[c].fields =
                            Merged(OwnFields(analysed_file, c),
                                   parent_info.fields, field)
                       /\ tables[c].methods =
                            Merged(Own(id, tables[c].methods),
                                   parent_info.methods, method)

\* The names of everything a TableInfo holds.
Names(info) == [fields |-> DOMAIN info.fields, methods |-> DOMAIN info.methods]

\* C27: a TableInfo that the resolve pass fetched for a cross-module parent
\* holds everything that parent inherits: every field and every method of
\* the class the parent's own definition names as its parent.
C27_ImportedParentComplete ==
    \A c \in DOMAIN tables \cap resolved :
       LET p == ParentId(tables[c])
           parent_info == fetch_table_info(p[1])[1]
           g == ParentId(parent_info)
           grand_info == fetch_table_info(g[1])[1]
       IN (/\ p # None
           /\ file_id(p[1]) # analysed_file
           /\ fetch_table_info(p[1]) # None
           /\ g # None
           /\ fetch_table_info(g[1]) # None)
             => /\ Names(grand_info).fields \subseteq Names(parent_info).fields
                /\ Names(grand_info).methods \subseteq Names(parent_info).methods

(***************************************************************************)
(* The evaluator: the context around a module load                         *)
(***************************************************************************)
\* The file the evaluator runs and its two environment handles.
Context == <<current_file_id, environment, globals>>

\* The context the top level of a file runs in: the file's module
\* environment, as current environment and as globals.
TopLevelContext(file) == <<file, module_cache[file], module_cache[file]>>

\* C25: when a runtime module load ends, current_file_id, environment and
\* globals are those of the importing module before the load, whether the
\* module's top level has returned (with or without an error) or the load
\* could not start for want of the module's program.
C25_LoadRestoresContext ==
    [][/\ (ctl.m = "topret" /\ InFrame("load_and_evaluate_module"))
            => Context' = TopLevelContext(Top(Pop(kont)).file)
       /\ (/\ AtItem("Use")
           /\ Item.target \notin DOMAIN module_cache
           /\ Item.target \notin DOMAIN module_programs)
            => Context' = Context]_vars

(***************************************************************************)
(* The evaluator: RefCell borrows in eval_assignment and eval_for          *)
(***************************************************************************)
MaxElements == 2    \* elements of the array before the statement runs

\* The shared cells: the current environment (Rc<RefCell<Environment>>), the
\* field map of the instance bound to `obj` (Instance.fields) and the array
\* bound to `arr` (Rc<RefCell<Vec<Value>>>).
Cells == {"env", "fields", "array"}

\* The expressions a statement is built from: they read and mutate the
\* cells the statement itself assigns to.
SubExprs == {"0", "x", "arr[0]", "obj.f", "push(arr, 1)", "x = 5", "obj.f = 5"}
AssignTargets == {"x", "y", "obj.f", "arr[i]"}

\* A panic of RefCell::borrow or RefCell::borrow_mut ends the program.
Panicked == [t |-> "Panic", v |-> Unit, err |-> "already borrowed"]

\* RefCell::borrow and RefCell::borrow_mut succeed.
can_borrow(cell) == borrows[cell] >= 0
can_borrow_mut(cell) == borrows[cell] = 0

\* The cells an expression borrows while it is evaluated, each borrow
\* released before the next: eval_identifier, eval_index and
\* access_instance_member borrow shared; native_array_push and
\* eval_assignment borrow mutably.
Reads(e) ==
    CASE e = "0" -> {}
      [] e = "x" -> {"env"}
      [] e = "arr[0]" -> {"env", "array"}
      [] e = "obj.f" -> {"env", "fields"}
      [] e = "push(arr, 1)" -> {"env"}
      [] e = "x = 5" -> {}
      [] e = "obj.f = 5" -> {"env"}
      [] e \in {"obj", "arr"} -> {"env"}
Writes(e) ==
    CASE e = "push(arr, 1)" -> {"array"}
      [] e = "x = 5" -> {"env"}
      [] e = "obj.f = 5" -> {"fields"}
      [] OTHER -> {}

\* evaluate(e): the result and what the cells hold afterwards.
evaluate(e) ==
    LET values == cell_values
        same(r) == [r |-> r, values |-> values]
    IN IF \/ \E c \in Reads(e) : ~can_borrow(c)
          \/ \E c \in Writes(e) : ~can_borrow_mut(c)
       THEN same(Panicked)
       ELSE CASE e = "0" -> same(Ok(IntV(0)))
              [] e = "x" -> same(Ok(values.env["x"]))
              [] e = "arr[0]" ->
                    IF values.array = <<>> THEN same(Err("IndexOutOfBounds"))
                    ELSE same(Ok(values.array[1]))
              [] e = "obj.f" -> same(Ok(values.fields["f"]))
              [] e = "push(arr, 1)" ->
                    [r |-> Ok(Unit),
                     values |-> [values EXCEPT !.array = Append(@, IntV(1))]]
              [] e = "x = 5" ->
                    [r |-> Ok(Unit),
                     values |-> [values EXCEPT !.env = ("x" :> IntV(5)) @@ @]]
              [] e = "obj.f = 5" ->
                    [r |-> Ok(Unit),
                     values |-> [values EXCEPT !.fields = ("f" :> IntV(5)) @@ @]]
              [] e \in {"obj", "arr"} -> same(Ok(Unit))

\* The cell an assignment installs its value in.
TargetCell(target) ==
    CASE target \in {"x", "y"} -> "env"
      [] target = "obj.f" -> "fields"
      [] target = "arr[i]" -> "array"

\* A mutant of borrow_stage: the array is borrowed before the index is
\* evaluated.
borrow_stage_early(target) == IF target = "arr[i]" THEN "index" ELSE "install"

\* eval_assignment: the position at which the mutable borrow of the target
\* is taken: after the value, the target and the index have been evaluated.
borrow_stage(target) == "install"

Statement(kind, target, value, index, stage) ==
    [kind |-> kind, target |-> target, value |-> value, index |-> index,
     stage |-> stage, right |-> Unit, idx |-> Unit, elements |-> <<>>,
     next |-> 1, result |-> Ok(Unit)]

\* `target = value` for every target and every pair of expressions, and
\* `for v in arr` with every expression as its body.
Statements_ ==
    {Statement("assign", t, v, "0", "value") : <<t, v>> \in AssignTargets \X SubExprs}
    \cup {Statement("assign", "arr[i]", v, i, "value") : <<v, i>> \in SubExprs \X SubExprs}
    \cup {Statement("for", "v", b, "0", "iterable") : b \in SubExprs}

BorrowInit ==
    /\ borrows = [c \in Cells |-> 0]
    /\ \E n \in 0..MaxElements :
          cell_values = [env |-> ("x" :> IntV(0)),
                         fields |-> ("f" :> IntV(0)),
                         array |-> [i \in 1..n |-> IntV(0)]]
    /\ running \in Statements_
    /\ ImportIdle
    /\ ResolveIdle
    /\ LexIdle
    /\ EvalIdle
    /\ CheckIdle
    /\ LoopIdle
    /\ LookupIdle
    /\ ParseIdle
    /\ PipelineIdle
    /\ ScopeIdle

Finished(r) == [running EXCEPT !.stage = "done", !.result = r]

\* eval_assignment: let right_val = require_ok!(self.evaluate(value_expr))
eval_assignment_right ==
    /\ running.kind = "assign" /\ running.stage = "value"
    /\ LET e == evaluate(running.value)
       IN /\ cell_values' = e.values
          /\ running' =
                IF e.r.t # "Ok" THEN Finished(e.r)
                ELSE [running EXCEPT
                        !.right = e.r.v,
                        !.stage = IF running.target \in {"x", "y"}
                                  THEN "install" ELSE "target"]
    /\ UNCHANGED borrows

\* eval_assignment: require_ok!(self.evaluate(obj_expr)) of a FieldAccess
\* target, require_ok!(self.evaluate(arr_expr)) of an Index target.
eval_assignment_object ==
    /\ running.kind = "assign" /\ running.stage = "target"
    /\ LET e == evaluate(IF running.target = "obj.f" THEN "obj" ELSE "arr")
           cell == TargetCell(running.target)
           early == borrow_stage(running.target) = "index"
       IN IF e.r.t # "Ok" \/ (early /\ ~can_borrow_mut(cell))
          THEN /\ running' = Finished(IF e.r.t # "Ok" THEN e.r ELSE Panicked)
               /\ UNCHANGED borrows
          ELSE /\ running' = [running EXCEPT
                                !.stage = IF running.target = "obj.f"
                                          THEN "install" ELSE "index"]
               /\ borrows' = IF early THEN [borrows EXCEPT ![cell] = -1]
                             ELSE borrows
    /\ UNCHANGED cell_values

\* eval_assignment: let idx_val = require_ok!(self.evaluate(idx_expr))
eval_assignment_subscript ==
    /\ running.kind = "assign" /\ running.stage = "index"
    /\ LET e == evaluate(running.index)
       IN /\ cell_values' = e.values
          /\ running' = IF e.r.t # "Ok" THEN Finished(e.r)
                        ELSE [running EXCEPT !.idx = e.r.v, !.stage = "install"]
    /\ UNCHANGED borrows

\* eval_assignment: borrow_mut, install the value, release.
eval_assignment_install ==
    /\ running.kind = "assign" /\ running.stage = "install"
    /\ LET target == running.target
           cell == TargetCell(target)
           held == borrow_stage(target) # "install"
           i == running.idx
       IN IF target = "arr[i]" /\ i.t # "Int"
          THEN /\ running' = Finished(Err("TypeError"))
               /\ UNCHANGED cell_values
          ELSE IF ~held /\ ~can_borrow_mut(cell)
          THEN /\ running' = Finished(Panicked)
               /\ UNCHANGED cell_values
          ELSE IF target = "arr[i]" /\ ~(i.n >= 0 /\ i.n < Len(cell_values.array))
          THEN /\ running' = Finished(Err("IndexOutOfBounds"))
               /\ UNCHANGED cell_values
          ELSE /\ running' = Finished(Ok(Unit))
               /\ cell_values' =
                    CASE target \in {"x", "y"} ->
                            \* Environment::assign, or define when it fails
                            [cell_values EXCEPT
                               !.env = (target :> running.right) @@ @]
                      [] target = "obj.f" ->
                            [cell_values EXCEPT
                               !.fields = ("f" :> running.right) @@ @]
                      [] target = "arr[i]" ->
                            [cell_values EXCEPT
                               !.array[i.n + 1] = running.right]
    /\ borrows' = [borrows EXCEPT ![TargetCell(running.target)] = 0]

\* eval_for: let collection_val = require_ok!(self.evaluate(iterable_expr))
eval_for_collection ==
    /\ running.kind = "for" /\ running.stage = "iterable"
    /\ LET e == evaluate("arr")
       IN running' = IF e.r.t # "Ok" THEN Finished(e.r)
                     ELSE [running EXCEPT !.stage = "snapshot"]
    /\ UNCHANGED <<borrows, cell_values>>

\* eval_for: let elements = arr_rc.borrow().clone()
eval_for_clone ==
    /\ running.kind = "for" /\ running.stage = "snapshot"
    /\ running' = IF ~can_borrow("array") THEN Finished(Panicked)
                  ELSE [running EXCEPT !.elements = cell_values.array,
                                       !.stage = "body"]
    /\ UNCHANGED <<borrows, cell_values>>

\* eval_for: one iteration; eval_loop_body defines the iterator in a new
\* environment and runs the body.
eval_for_element ==
    /\ running.kind = "for" /\ running.stage = "body"
    /\ running.next <= Len(running.elements)
    /\ LET e == evaluate(running.value)
       IN /\ cell_values' = e.values
          /\ running' = IF e.r.t # "Ok" THEN Finished(e.r)
                        ELSE [running EXCEPT !.next = @ + 1]
    /\ UNCHANGED borrows

\* eval_for: the elements are exhausted.
eval_for_exhausted ==
    /\ running.kind = "for" /\ running.stage = "body"
    /\ running.next > Len(running.elements)
    /\ running' = Finished(Ok(Unit))
    /\ UNCHANGED <<borrows, cell_values>>

BorrowNext ==
    \/ eval_assignment_right /\ UNCHANGED notBorrow
    \/ eval_assignment_object /\ UNCHANGED notBorrow
    \/ eval_assignment_subscript /\ UNCHANGED notBorrow
    \/ eval_assignment_install /\ UNCHANGED notBorrow
    \/ eval_for_collection /\ UNCHANGED notBorrow
    \/ eval_for_clone /\ UNCHANGED notBorrow
    \/ eval_for_element /\ UNCHANGED notBorrow
    \/ eval_for_exhausted /\ UNCHANGED notBorrow

SpecBorrow == BorrowInit /\ [][BorrowNext]_vars

\* C26: the evaluator holds no borrow of the environment, of an instance's
\* field map or of an array when it evaluates a sub-expression or makes a
\* call, and no borrow fails, also when the value, the target and the index
\* of an assignment read or mutate the object assigned to.
C26_NoBorrowHeldAcrossEvaluation ==
    /\ \A c \in Cells : borrows[c] = 0
    /\ running.result # Panicked

\* `arr[arr[0]] = push(arr, 1)` has completed: the value pushed to the array
\* the index was read from and the assignment was made to.
C26_Witness ==
    /\ running.kind = "assign"
    /\ running.target = "arr[i]"
    /\ running.value = "push(arr, 1)"
    /\ running.index = "arr[0]"
    /\ running.stage = "done"
    /\ running.result = Ok(Unit)
    /\ cell_values.array[1] = Unit

(***************************************************************************)
(* The lexer: dedents, blank lines and comments                            *)
(***************************************************************************)
\* The spaces that end just before position p of the text.
RECURSIVE IndentBefore(_)
IndentBefore(p) ==
    IF p > 1 /\ src[p - 1] = " " THEN 1 + IndentBefore(p - 1) ELSE 0

\* The levels of an indent stack above n.
LevelsAbove(stack, n) == {i \in 1..Len(stack) : stack[i] > n}

\* next_token is at a line break and handle_newline returns the token of
\* the line it stops at: position' is where that line's indentation ends.
AtLineBreak == Lexing /\ pending_tokens = <<>> /\ NextChar = "\n"

\* C28: when the indentation of the new line is below the top of the indent
\* stack, every level above the indentation is popped, one Dedent is emitted
\* for every level popped (the token returned and those queued), and ERROR is
\* returned if and only if the indentation is none of the stack's levels.
C28_DedentPerPoppedLevel ==
    [][LET n == IndentBefore(position')
           returned == Top(tokens')
           dedents == (IF returned = "Dedent" THEN 1 ELSE 0) + Len(pending_tokens')
       IN (AtLineBreak /\ tokens' # tokens /\ n < Top(indent_stack))
             => /\ indent_stack' = PopTo(indent_stack, n)
                /\ dedents = Cardinality(LevelsAbove(indent_stack, n))
                /\ (returned = "ERROR")
                      <=> (\A i \in 1..Len(indent_stack) : indent_stack[i] # n)]_vars

\* The Indent and Dedent tokens among the first k tokens returned.
RECURSIVE LayoutTokens(_)
LayoutTokens(k) ==
    IF k = 0 THEN <<>>
    ELSE LayoutTokens(k - 1)
         \o (IF tokens[k] \in {"Indent", "Dedent"} THEN <<tokens[k]>> ELSE <<>>)

RECURSIVE Dedents(_)
Dedents(n) == IF n = 0 THEN <<>> ELSE <<"Dedent">> \o Dedents(n - 1)

\* The Indent and Dedent tokens of a text made of lines of code with the
\* given indentations: an Indent for a deeper line, a Dedent for every block
\* a line closes, and a Dedent for every block open at the end.
RECURSIVE Layout(_, _)
Layout(open, indents) ==
    IF indents = <<>> THEN Dedents(Len(open) - 1)
    ELSE LET n == Head(indents)
         IN IF n > Top(open)
            THEN <<"Indent">> \o Layout(Append(open, n), Tail(indents))
            ELSE Dedents(Cardinality(LevelsAbove(open, n)))
                 \o Layout(PopTo(open, n), Tail(indents))

\* C29: blank lines and full-line comments cause no Indent and no Dedent:
\* when the whole text has been read, the Indent and Dedent tokens are those
\* of the text's lines of code alone. Checked for the texts whose code is
\* consistently indented.
C29_BlankLinesAndCommentsIgnored ==
    (WellFormed /\ ~Lexing)
        => LayoutTokens(Len(tokens)) = Layout(<<0>>, CodeIndents(input.lines))

(***************************************************************************)
(* Construction: the globals a field initialiser runs in                   *)
(***************************************************************************)
\* The innermost call that has been entered and has not returned: 0 if the
\* run is in no call.
InnermostCall ==
    LET entered == {i \in 1..Len(kont) : kont[i].f \in CallFrames}
    IN IF entered = {} THEN 0 ELSE CHOOSE i \in entered : \A j \in entered : j <= i

\* An identifier of an initialiser is being looked up: the lookup is made
\* by a construction, not by a call the initialiser made.
InInitialiser ==
    /\ Evaluating("Identifier")
    /\ InnermostCall # 0
    /\ kont[InnermostCall].f = "instantiate_table"

\* C30: while an instance of a class is constructed, an identifier of a field
\* initialiser is looked up with the global environment of the file that
\* defines the class as environment and as globals, so it denotes what that
\* file's globals hold for the name (or nothing, if they hold nothing),
\* whatever the caller's environment and globals bind.
C30_InitialiserInDefinerGlobals ==
    InInitialiser =>
        LET fr == kont[InnermostCall]
        IN /\ fr.file \in DOMAIN module_cache
           /\ globals = module_cache[fr.file]
           /\ environment = module_cache[fr.file]
           /\ Resolver(envs, environment, ctl.e.name)
                 = Resolver(envs, module_cache[fr.file], ctl.e.name)

\* A class of the library is constructed from the entry file, whose globals
\* bind g to another value than the library's do; the initialiser's g is
\* about to be looked up, and the lookup finds the library's.
C30_Witness ==
    /\ InInitialiser
    /\ ctl.e.name = "g"
    /\ LET fr == kont[InnermostCall]
       IN /\ fr.file = LibFile
          /\ EntryFile \in DOMAIN module_cache
          /\ fr.prev_globals = module_cache[EntryFile]
          /\ fr.prev_globals # module_cache[LibFile]
          /\ Bound(envs, fr.prev_globals, "g")
          /\ Bound(envs, module_cache[LibFile], "g")
          /\ get(envs, fr.prev_globals, "g") # get(envs, module_cache[LibFile], "g")
          /\ get(envs, environment, "g") = get(envs, module_cache[LibFile], "g")

(***************************************************************************)
(* Assignment from a nested scope                                          *)
(***************************************************************************)
\* An assignment to an identifier is about to be carried out, and the name
\* is bound in the current environment or in one that encloses it.
AssigningBound ==
    /\ ctl.m = "ret"
    /\ InFrame("eval_assignment")
    /\ ctl.r.t = "Ok"
    /\ Bound(envs, environment, Top(kont).name)

\* C31: an assignment to a name that is bound, made in any environment that
\* sees the binding (a block, an if branch, a loop body, a function whose
\* captured environment holds it), replaces the value in the environment
\* that holds the binding and changes nothing else: no environment is
\* created, no other environment gets the name, and every environment that
\* saw the binding sees the new value.
C31_AssignUpdatesDefiner ==
    [][AssigningBound =>
         LET name == Top(kont).name
             definer == Resolver(envs, environment, name)
         IN /\ Len(envs') = Len(envs)
            /\ \A h \in 1..Len(envs) :
                  /\ envs'[h].enclosing = envs[h].enclosing
                  /\ DOMAIN envs'[h].values = DOMAIN envs[h].values
                  /\ \A n \in DOMAIN envs[h].values :
                        envs'[h].values[n] =
                            IF h = definer /\ n = name THEN ctl.r.v
                            ELSE envs[h].values[n]
                  /\ Resolver(envs, h, name) = definer =>
                        get(envs', h, name) = ctl.r.v]_vars

\* A function of the library assigned its own k and the library's g from an
\* if branch inside a loop body; the loop has ended and the run is back in
\* the block of the function's body, whose environment holds the new k as
\* the library's globals hold the new g: no environment created for the
\* loop body, the branch or its block holds either name.
C31_Witness ==
    /\ Evaluating("Identifier")
    /\ ctl.e.name = "k"
    /\ cur_call # 0
    /\ Cardinality({i \in 1..Len(kont) :
                        kont[i].f = "execute_block" /\ i > InnermostCall}) = 1
    /\ \E h \in 1..Len(envs) : envs[h].enclosing = environment
    /\ \A h \in 1..Len(envs) : "k" \in DOMAIN envs[h].values => h = environment
    /\ "k" \in DOMAIN envs[environment].values
    /\ envs[environment].values["k"] = IntV(8)
    /\ LibFile \in DOMAIN module_cache
    /\ envs[module_cache[LibFile]].values["g"] = IntV(8)
    /\ \A h \in 1..Len(envs) :
          "g" \in DOMAIN envs[h].values /\ envs[h].values["g"] = IntV(8)
              => h = module_cache[LibFile]

(***************************************************************************)
(* Blocks and loop bodies: the current environment                         *)
(***************************************************************************)
LoopFrames == {"eval_while", "eval_for"}

\* A loop is about to run its body once more.
IterationStarts ==
    /\ kont # <<>>
    /\ Top(kont).f \in LoopFrames
    /\ \/ ctl.m = "ret" /\ Top(kont).f = "eval_while" /\ Top(kont).stage = "cond"
       \/ ctl.m = "iter" /\ Top(kont).f = "eval_for"

\* The body of an iteration has returned to its loop.
IterationEnds ==
    /\ kont # <<>>
    /\ Top(kont).f \in LoopFrames
    /\ Top(kont).stage = "body"
    /\ ctl.m = "ret"

\* C32: a block remembers the environment that is current when it is
\* entered and runs in a fresh one; when it ends, with Ok or with Return,
\* Break, Continue or Err from one of its statements, the remembered
\* environment is current again. The same holds for the environment a while
\* or for loop creates for one run of its body.
C32_BlockRestoresEnvironment ==
    [][/\ ctl.m = "block" =>
             /\ Len(kont') = Len(kont) + 1
             /\ Top(kont').f = "execute_block"
             /\ Top(kont').prev_env = environment
             /\ environment' # environment
       /\ (InFrame("execute_block") /\ Len(kont') < Len(kont)) =>
             /\ ctl'.m = "ret"
             /\ environment' = Top(kont).prev_env
       /\ (IterationStarts /\ ctl'.m = "block") =>
             /\ Top(kont').prev_env = environment
             /\ environment' # environment
       /\ IterationEnds => environment' = Top(kont).prev_env]_vars

\* The body of a while loop has ended early with Break: the block has put
\* the environment of the iteration back, which encloses the environment
\* the loop was entered in, and the block's own environment is left behind.
C32_Witness ==
    /\ IterationEnds
    /\ Top(kont).f = "eval_while"
    /\ ctl.r.t = "Break"
    /\ envs[environment].enclosing = Top(kont).prev_env
    /\ \E h \in 1..Len(envs) : envs[h].enclosing = environment

(***************************************************************************)
(* The driver: run_pipeline from parsing to evaluation                     *)
(***************************************************************************)
MaxImports == 2     \* `use` statements in the whole program

\* What may be wrong with a source file, and the pass that finds it:
\*   "fatal"      parse_program returns Err
\*   "recovered"  parse_program skips an item: Ok, and parser.errors is not empty
\*   "collect"    collect_program reports GenericShadowing
\*   "resolve"    resolve_hierarchy reports CyclicInheritance
\*   "check"      check_program reports TypeMismatch
DefectKinds == {"fatal", "recovered", "collect", "resolve", "check"}
Has(file, kind) == defect.file = file /\ defect.kind = kind

\* Parser::parse_program on a file: Err, or Ok with what parser.errors holds.
parse_program(file) ==
    [ok |-> ~Has(file, "fatal"),
     errors |-> IF Has(file, "recovered") THEN <<"ParseError">> ELSE <<>>]

\* collect_program's diagnostics for the file's own items, the `use`
\* statements left out; resolve_hierarchy's and check_program's.
collect_program(a) ==
    IF Has(a.file, "collect") THEN Report(a, "GenericShadowing") ELSE a
\* A mutant of resolve_hierarchy: the pass reports nothing.
resolve_hierarchy_silent(a) == a

resolve_hierarchy(a) ==
    IF Has(a.file, "resolve") THEN Report(a, "CyclicInheritance") ELSE a
check_program_pass(a) ==
    IF Has(a.file, "check") THEN Report(a, "TypeMismatch") ELSE a

Ran(pass, file) == Append(driver.passes, <<pass, file>>)

PipelineInit ==
    /\ \E pairs \in SeqsUpTo(FileIds \X Targets, MaxImports) :
          imports = [f \in FileIds |-> UsesOf(pairs, f)]
    /\ defect \in {[file |-> NoFile, kind |-> "none"]}
                  \cup [file : FileIds, kind : DefectKinds]
    /\ driver = [stage |-> "start", analyzers |-> <<>>, modules |-> {},
                 loading_stack |-> {}, passes |-> <<>>, loads |-> <<>>,
                 module_cache |-> {}]
    /\ ImportIdle
    /\ ResolveIdle
    /\ LexIdle
    /\ EvalIdle
    /\ CheckIdle
    /\ LoopIdle
    /\ LookupIdle
    /\ ParseIdle
    /\ BorrowIdle
    /\ ScopeIdle

\* run_pipeline, step 1: parse the entry file; an Err and a non-empty
\* parser.errors both end the run. Then Analyzer::new and collect_program.
run_pipeline_parse ==
    /\ driver.stage = "start"
    /\ LET parsed == parse_program(EntryFile)
       IN IF ~parsed.ok \/ parsed.errors # <<>>
          THEN driver' = [driver EXCEPT !.stage = "rejected",
                                        !.passes = Ran("parse", EntryFile)]
          ELSE driver' = [driver EXCEPT
                              !.stage = "analysis",
                              !.analyzers = <<NewAnalyzer(EntryFile)>>,
                              !.passes = Ran("parse", EntryFile)
                                             \o << <<"collect", EntryFile>> >>]
    /\ UNCHANGED <<imports, defect>>

Collecting ==
    /\ driver.stage = "analysis"
    /\ Top(driver.analyzers).pc <= Len(imports[Top(driver.analyzers).file])
UseTarget == imports[Top(driver.analyzers).file][Top(driver.analyzers).pc]
Collected(a) == [driver EXCEPT !.analyzers = SetTop(driver.analyzers, Advance(a))]

\* collect_use_statement: the path resolves to no file.
collect_use_not_found ==
    /\ Collecting
    /\ UseTarget = NoFile
    /\ driver' = Collected(Report(Top(driver.analyzers), "ModuleNotFound"))
    /\ UNCHANGED <<imports, defect>>

\* collect_use_statement: Context.modules holds the module.
collect_use_cached ==
    /\ Collecting
    /\ UseTarget \in driver.modules
    /\ driver' = Collected(DefineImport(Top(driver.analyzers), UseTarget))
    /\ UNCHANGED <<imports, defect>>

\* collect_use_statement: the module is on the loading stack.
collect_use_cycle ==
    /\ Collecting
    /\ UseTarget \in FileIds \ driver.modules
    /\ UseTarget \in driver.loading_stack
    /\ driver' = Collected(Report(Top(driver.analyzers), "CircularDependency"))
    /\ UNCHANGED <<imports, defect>>

\* collect_use_statement, a cache miss: analyze_module_file parses the file;
\* an Err is reported and the import name is bound all the same, an Ok starts
\* the nested analyzer on the program (parser.errors is not looked at).
collect_use_load ==
    /\ Collecting
    /\ UseTarget \in FileIds \ driver.modules
    /\ UseTarget \notin driver.loading_stack
    /\ LET importer == Top(driver.analyzers)
       IN IF ~parse_program(UseTarget).ok
          THEN driver' = [Collected(DefineImport(Report(importer, "ModuleParseError"),
                                                 UseTarget))
                             EXCEPT !.passes = Ran("parse", UseTarget)]
          ELSE driver' = [driver EXCEPT
                              !.loading_stack = @ \cup {UseTarget},
                              !.analyzers = Append(@, NewAnalyzer(UseTarget)),
                              !.passes = Ran("parse", UseTarget)
                                             \o << <<"collect", UseTarget>> >>]
    /\ UNCHANGED <<imports, defect>>

\* analyze_module_file after the nested collect_program: None if it left
\* errors, else resolve_hierarchy and None if that left errors, else the
\* ModuleInfo; collect_use_statement then caches the module and binds the name.
analyze_module_file ==
    /\ driver.stage = "analysis"
    /\ Len(driver.analyzers) > 1
    /\ Top(driver.analyzers).pc > Len(imports[Top(driver.analyzers).file])
    /\ LET sub == collect_program(Top(driver.analyzers))
           importer == driver.analyzers[Len(driver.analyzers) - 1]
           resolves == sub.errors = <<>>
           done == IF resolves THEN resolve_hierarchy(sub) ELSE sub
           ok == done.errors = <<>>
           merged == IF ok THEN importer ELSE ExtendErrors(importer, done)
       IN driver' = [driver EXCEPT
                         !.loading_stack = LoadEnded(@, sub.file, ok),
                         !.modules = IF ok THEN @ \cup {sub.file} ELSE @,
                         !.passes = IF resolves THEN Ran("resolve", sub.file) ELSE @,
                         !.analyzers = SetTop(Pop(@),
                                              Advance(DefineImport(merged, sub.file)))]
    /\ UNCHANGED <<imports, defect>>

\* run_pipeline, steps 2 and 3: the entry file is collected; resolve and
\* check run whatever was reported, errors end the run, and otherwise
\* Interpreter::new and eval_program (the entry file is cached, its
\* top-level items run).
run_pipeline_analyzed ==
    /\ driver.stage = "analysis"
    /\ Len(driver.analyzers) = 1
    /\ Top(driver.analyzers).pc > Len(imports[EntryFile])
    /\ LET analyzer == check_program_pass(resolve_hierarchy(
                           collect_program(Top(driver.analyzers))))
           passes == driver.passes \o << <<"resolve", EntryFile>>,
                                         <<"check", EntryFile>> >>
       IN IF analyzer.errors # <<>>
          THEN driver' = [driver EXCEPT !.stage = "rejected",
                                        !.analyzers = <<analyzer>>,
                                        !.passes = passes]
          ELSE driver' = [driver EXCEPT
                              !.stage = "evaluation",
                              !.analyzers = <<analyzer>>,
                              !.passes = Append(passes, <<"execute", EntryFile>>),
                              !.loads = <<[file |-> EntryFile, pc |-> 1]>>,
                              !.module_cache = {EntryFile}]
    /\ UNCHANGED <<imports, defect>>

\* interpreter.module_programs as run_pipeline fills it.
driver_module_programs == driver.modules \cup {EntryFile}

\* run_top_level at a `use`: bind_module binds a cached module, and else
\* load_and_evaluate_module caches the module and runs its top-level items.
pipeline_bind_module ==
    /\ driver.stage = "evaluation"
    /\ Top(driver.loads).pc <= Len(imports[Top(driver.loads).file])
    /\ LET target == imports[Top(driver.loads).file][Top(driver.loads).pc]
       IN IF target = NoFile
          THEN driver' = [driver EXCEPT !.stage = "failed"]
          ELSE IF target \in driver.module_cache
          THEN driver' = [driver EXCEPT !.loads = SetTop(@, Advance(Top(@)))]
          ELSE IF target \notin driver_module_programs
          THEN driver' = [driver EXCEPT !.stage = "failed",
                                        !.module_cache = @ \cup {target}]
          ELSE driver' = [driver EXCEPT
                              !.module_cache = @ \cup {target},
                              !.loads = Append(@, [file |-> target, pc |-> 1]),
                              !.passes = Ran("execute", target)]
    /\ UNCHANGED <<imports, defect>>

\* run_top_level has visited the last item: load_and_evaluate_module
\* returns to bind_module, or eval_program goes on to run_main_entry.
pipeline_run_top_level_done ==
    /\ driver.stage = "evaluation"
    /\ Top(driver.loads).pc > Len(imports[Top(driver.loads).file])
    /\ IF Len(driver.loads) = 1
       THEN driver' = [driver EXCEPT !.stage = "finished", !.loads = <<>>]
       ELSE driver' = [driver EXCEPT
                           !.loads = SetTop(Pop(@), Advance(Top(Pop(@))))]
    /\ UNCHANGED <<imports, defect>>

PipelineNext ==
    \/ run_pipeline_parse /\ UNCHANGED notPipeline
    \/ collect_use_not_found /\ UNCHANGED notPipeline
    \/ collect_use_cached /\ UNCHANGED notPipeline
    \/ collect_use_cycle /\ UNCHANGED notPipeline
    \/ collect_use_load /\ UNCHANGED notPipeline
    \/ analyze_module_file /\ UNCHANGED notPipeline
    \/ run_pipeline_analyzed /\ UNCHANGED notPipeline
    \/ pipeline_bind_module /\ UNCHANGED notPipeline
    \/ pipeline_run_top_level_done /\ UNCHANGED notPipeline

SpecPipeline == PipelineInit /\ [][PipelineNext]_vars

\* How often a pass has run on a file.
RunsOf(pass, file) == CountOf(driver.passes, <<pass, file>>)
\* The evaluator has been started.
Started == driver.stage \in {"evaluation", "finished", "failed"}

\* C33: the evaluator is started only for a program none of whose files, the
\* entry file or a module it imports directly or indirectly, has a syntax
\* error or a semantic error: whatever a parser or a pass of the analyzer
\* would record for a file that was parsed keeps the program from running.
C33_NoDiagnosticBeforeEvaluation ==
    Started => RunsOf("parse", defect.file) = 0

\* The files whose top-level items the evaluator has run or is running.
Executed == {f \in FileIds : RunsOf("execute", f) > 0}

\* C34 as claimed: every file the evaluator executes, an imported module
\* like the entry file, has had check_program run over its program, and the
\* pass had nothing to report there.
C34_ExecutedModulesChecked ==
    \A f \in Executed : RunsOf("check", f) > 0 /\ ~Has(f, "check")

\* C34: every file the evaluator executes has been parsed to a program and
\* has had the collect pass and the resolve pass run over it with nothing
\* reported; the check pass has run over the entry file, with nothing
\* reported, and over no imported module.
C34_ExecutedModulesResolved ==
    \A f \in Executed :
        /\ RunsOf("parse", f) > 0 /\ parse_program(f).ok
        /\ RunsOf("collect", f) > 0 /\ ~Has(f, "collect")
        /\ RunsOf("resolve", f) > 0 /\ ~Has(f, "resolve")
        /\ RunsOf("check", f) = (IF f = EntryFile THEN 1 ELSE 0)
        /\ f = EntryFile => ~Has(f, "check")

\* The run has ended after executing the library, which the entry file
\* imports and whose program the check pass would have rejected.
C34_Witness ==
    /\ driver.stage = "finished"
    /\ LibFile \in Executed
    /\ Has(LibFile, "check")
    /\ RunsOf("resolve", LibFile) = 1
    /\ RunsOf("check", LibFile) = 0

\* The diagnostics run_pipeline ends with.
PipelineErrors ==
    IF driver.analyzers = <<>> THEN <<>> ELSE driver.analyzers[1].errors

\* C36: in one run of the pipeline no file is parsed or collected more than
\* once, whatever imports what, and the diagnostic of a flawed module is in
\* the final error list once, however many `use` statements name the module.
C36_FilesAnalysedOnce ==
    /\ \A f \in FileIds : RunsOf("parse", f) <= 1 /\ RunsOf("collect", f) <= 1
    /\ driver.stage = "rejected" =>
          \A kind \in {"GenericShadowing", "CyclicInheritance", "ModuleParseError"} :
              CountOf(PipelineErrors, kind) <= 1

(***************************************************************************)
(* is_subtype, call by call, on the tables the check pass is run on        *)
(***************************************************************************)
\* The parents the collect pass records: any class of the file or none.
\* resolve_hierarchy reports a cycle and leaves the parents as they are,
\* and run_pipeline runs check_program after it in any case.
CollectedHierarchies == [ClassIds -> {0} \cup ClassIds]

SubtypeInit ==
    /\ hierarchy \in CollectedHierarchies
    /\ \E child_id \in ClassIds, target_id \in ClassIds :
          /\ query = [op |-> "is_subtype", child_id |-> child_id,
                      target_id |-> target_id]
          /\ answer = [done |-> FALSE, child_id |-> child_id]
    /\ ImportIdle
    /\ ResolveIdle
    /\ LexIdle
    /\ EvalIdle
    /\ LoopIdle
    /\ LookupIdle
    /\ ParseIdle
    /\ BorrowIdle
    /\ PipelineIdle
    /\ ScopeIdle

InSubtype == query.op = "is_subtype" /\ ~answer.done

\* is_subtype: child_id == target_id
is_subtype_equal ==
    /\ InSubtype
    /\ answer.child_id = query.target_id
    /\ answer' = [done |-> TRUE, child_id |-> answer.child_id, value |-> TRUE]
    /\ UNCHANGED <<hierarchy, query>>

\* is_subtype: the class has no parent that is a class
is_subtype_no_parent ==
    /\ InSubtype
    /\ answer.child_id # query.target_id
    /\ find_table_info(answer.child_id) = 0
    /\ answer' = [done |-> TRUE, child_id |-> answer.child_id, value |-> FALSE]
    /\ UNCHANGED <<hierarchy, query>>

\* is_subtype: return self.is_subtype(parent_id, target_id)
is_subtype_recurse ==
    /\ InSubtype
    /\ answer.child_id # query.target_id
    /\ find_table_info(answer.child_id) # 0
    /\ answer' = [answer EXCEPT !.child_id = find_table_info(answer.child_id)]
    /\ UNCHANGED <<hierarchy, query>>

SubtypeNext ==
    \/ is_subtype_equal /\ UNCHANGED notCheck
    \/ is_subtype_no_parent /\ UNCHANGED notCheck
    \/ is_subtype_recurse /\ UNCHANGED notCheck

\* A call that can go on does go on: the recursion is a chain of plain calls.
SpecSubtype == SubtypeInit /\ [][SubtypeNext]_vars /\ WF_vars(SubtypeNext)

TopLevelStarts(file) ==
    \E i \in (Len(kont) + 1)..Len(kont') :
        kont'[i].f = "run_top_level" /\ kont'[i].file = file

\* C37: run_top_level is started on a file's program only by a step that
\* puts the file into module_cache, where it was not before, and no file
\* ever leaves module_cache: so in one run the top-level items of a module
\* are executed at most once, whatever imports what.
C37_TopLevelRunsOnce ==
    [][/\ DOMAIN module_cache \subseteq DOMAIN module_cache'
       /\ \A file \in FileIds \cup {LostFile} :
             TopLevelStarts(file) =>
                 /\ file \notin DOMAIN module_cache
                 /\ file \in DOMAIN module_cache']_vars

\* The entry file imports the library, the library imports the entry file
\* and a second library, and that one imports the first back: every `use`
\* has been executed, the last one that met a module still loading named
\* the library, and the three files are cached.
C37_Witness ==
    /\ program.lib_uses = <<EntryFile, BackFile>>
    /\ {EntryFile, LibFile, BackFile} \subseteq DOMAIN module_cache
    /\ cyclic_use.file = LibFile
    /\ kont = <<>>
    /\ ctl.m = "topret"
    /\ ctl.ok

(***************************************************************************)
(* The resolve pass: the `visiting` set                                    *)
(***************************************************************************)
\* The table ids of the resolve_table calls that wait for a recursive call.
Suspended == {calls[i] : i \in 1..Len(calls)}

\* C38: `visiting` holds exactly the ids of the resolve_table calls that
\* are suspended at their recursive call, each once; so a call that returns,
\* with Ok or with Err, leaves `visiting` as it was when the call was
\* entered, `visiting` is empty whenever resolve_hierarchy takes the next
\* table and when it has finished, and no id is in `visiting` and in
\* `resolved` at once.
C38_VisitingBalanced ==
    rctl.op # "off" =>
        /\ visiting = Suspended
        /\ Cardinality(visiting) = Len(calls)
        /\ rctl.op \in {"idle", "done", "checked"} => visiting = {}
        /\ visiting \cap resolved = {}

\* A cycle has just been found two calls deep and the innermost call has
\* returned Err: `visiting` holds the two classes whose calls are still
\* suspended.
C38_Witness ==
    /\ rctl.op = "ret"
    /\ ~rctl.ok
    /\ Len(calls) = 2
    /\ visiting = Suspended
    /\ rerrors # <<>>
    /\ rerrors[Len(rerrors)].kind = "CyclicInheritance"

\* ---------------------------------------------------------------------
\* C39: between next_token calls the indentation stack is never empty,
\* its bottom level is 0, and its levels strictly increase from bottom to
\* top, whatever the source text.
C39_IndentStackIncreasing ==
    /\ indent_stack # <<>>
    /\ indent_stack[1] = 0
    /\ \A i \in 1..(Len(indent_stack) - 1) : indent_stack[i] < indent_stack[i + 1]

\* A line break that closed two levels at once: both were popped, one
\* Dedent was returned and the other is queued, and the stack is back at
\* the bottom level.
C39_Witness ==
    /\ tokens # <<>>
    /\ Top(tokens) = "Dedent"
    /\ pending_tokens = <<"Dedent">>
    /\ indent_stack = <<0>>
    /\ Len(SelectSeq(tokens, LAMBDA t : t = "Indent")) = 2

(***************************************************************************)
(* Scopes in the check pass (scope.rs, check.rs, check/decl.rs,           *)
(* check/stmt.rs).  check_program walks the items of a program; the       *)
(* checkers of field initialisers, method and function bodies, blocks and *)
(* `for` loops enter a scope, check what they contain and leave the       *)
(* scope.  check_stack holds the calls in progress: the checker, the      *)
(* point it has reached, the node it checks, the index of the next child  *)
(* and the depth of the scope stack when the call was made.               *)
(***************************************************************************)
MaxNesting == 2     \* scoped expressions nested inside one another

\* `if` with its optional else block, and a block used as an expression.
IfElse(cond, then_block, else_block) ==
    [k |-> "If", cond |-> cond, then_block |-> then_block,
     else_block |-> else_block]
BlockExpr(statements) == [k |-> "Block", statements |-> statements]

ScopeLeaves == {Lit(IntV(1)), ReturnUnit}

\* The expressions with at most d scoped expressions inside one another.
RECURSIVE ScopedExprs(_)
ScopedExprs(d) ==
    IF d = 0 THEN ScopeLeaves
    ELSE LET inner == ScopedExprs(d - 1)
         IN inner \cup UNION {
              {BlockExpr(<<e>>), BlockExpr(<<e, e>>),
               IfElse(Lit(BoolV(TRUE)), <<e>>, None),
               While(Lit(BoolV(TRUE)), <<e>>),
               For("i", Lit(IntV(1)), <<e>>)}
              \cup {IfElse(Lit(BoolV(TRUE)), <<e>>, Some(<<f>>)) : f \in ScopeLeaves}
              : e \in inner}

\* Items of a class: fields with or without an initialiser, methods with
\* or without a body.
ScopeFields ==
    {FieldItem("f", None)} \cup {FieldItem("f", Some(e)) : e \in ScopedExprs(1)}
ScopeMethods ==
    {FunctionItem("m", <<"p">>, None)}
    \cup {FunctionItem("m", <<"p">>, Some(<<e>>)) : e \in ScopedExprs(1)}

\* Top-level items: functions, variables, classes of up to one field and
\* one method, `use`.
ScopeItems ==
    {FunctionItem("fn", <<"p">>, None), UseItem(LibFile)}
    \cup {FunctionItem("fn", <<"p">>, Some(<<e>>)) : e \in ScopedExprs(MaxNesting)}
    \cup {FieldItem("g", None)}
    \cup {FieldItem("g", Some(e)) : e \in ScopedExprs(MaxNesting)}
    \cup {TableItem("A", fs, ms) : fs \in SeqsUpTo(ScopeFields, 1),
                                   ms \in SeqsUpTo(ScopeMethods, 1)}

\* Items that come before the item above in a program.
ScopeFirstItems ==
    {UseItem(LibFile), FunctionItem("fn", <<"p">>, None),
     FunctionItem("fn", <<"p">>, Some(<<For("i", Lit(IntV(1)), <<ReturnUnit>>)>>))}

ScopePrograms ==
    {<<it>> : it \in ScopeItems}
    \cup {<<a, it>> : a \in ScopeFirstItems, it \in ScopeItems}

\* ---- ScopeManager ----
enter_scope_none(s) == s

\* enter_scope pushes an empty scope.
enter_scope(s) == Append(s, {})

\* exit_scope pops the innermost scope, and panics when only the global
\* scope is left.
exit_scope_panics(s) == Len(s) <= 1
exit_scope(s) == IF Len(s) > 1 THEN Pop(s) ELSE s

\* define adds the symbol to the innermost scope.
define_symbol(s, name) == [s EXCEPT ![Len(s)] = @ \cup {name}]

\* A call of a checker on a node, made when the scope stack has `at_depth`
\* scopes.
CheckCall(fn, node, at_depth) ==
    [fn |-> fn, pc |-> "entry", node |-> node, i |-> 1, depth |-> at_depth]

\* check_expression dispatches on the kind of the expression.
ExprChecker(e) ==
    CASE e.k = "Block" -> "check_block_expr"
      [] e.k = "If"    -> "check_if_expr"
      [] e.k = "While" -> "check_while_expr"
      [] e.k = "For"   -> "check_for_expr"
      [] OTHER         -> "check_expression"
CheckExpression(e, at_depth) == CheckCall(ExprChecker(e), e, at_depth)
CheckBlockExpr(block, at_depth) == CheckCall("check_block_expr", BlockExpr(block), at_depth)

\* The type check_expression returns, as far as the checkers below look at
\* it: Never for a `return`, a block's last statement, Unit for loops.
RECURSIVE TypeOf(_)
TypeOfBlock(block) == IF block = <<>> THEN "Unit" ELSE TypeOf(Top(block))
TypeOf(e) ==
    CASE e.k = "Literal" -> "Int"
      [] e.k = "Return"  -> "Never"
      [] e.k = "Block"   -> TypeOfBlock(e.statements)
      [] e.k \in {"While", "For"} -> "Unit"
      [] e.k = "If" ->
           LET then_ty == TypeOfBlock(e.then_block)
           IN IF e.else_block # None
              THEN LET else_ty == TypeOfBlock(e.else_block[1])
                   IN IF then_ty = "Never" THEN else_ty
                      ELSE IF else_ty = "Never" THEN then_ty
                      ELSE IF then_ty # else_ty THEN "Error"
                      ELSE then_ty
              ELSE IF then_ty \notin {"Unit", "Never", "Error"} THEN "Error"
                   ELSE "Unit"

\* After construction and the collect pass: the global scope and the
\* scope collect_program opened, holding the builtins.
ScopeInit ==
    /\ ImportIdle
    /\ ResolveIdle
    /\ LexIdle
    /\ EvalIdle
    /\ CheckIdle
    /\ LoopIdle
    /\ LookupIdle
    /\ ParseIdle
    /\ BorrowIdle
    /\ PipelineIdle
    /\ checked_program \in ScopePrograms
    /\ scopes = <<{}, {"print"}>>
    /\ check_stack = <<CheckCall("check_program", checked_program, 2)>>
    /\ scope_panic = FALSE

\* The check pass is inside checker `fn` at point `pc`.
Checking(fn, pc) ==
    /\ check_stack # <<>>
    /\ ~scope_panic
    /\ Top(check_stack).fn = fn
    /\ Top(check_stack).pc = pc

\* The innermost call goes on as `frame`; it calls `callee`; it returns.
Resume(frame) == Append(Pop(check_stack), frame)
CallFrom(frame, callee) == Append(Resume(frame), callee)
ReturnFrom == Pop(check_stack)

\* self.scopes.exit_scope()
ExitScope ==
    /\ scope_panic' = exit_scope_panics(scopes)
    /\ scopes' = exit_scope(scopes)

\* check_program: the next item goes to its checker; `use` needs none.
check_program_item ==
    /\ Checking("check_program", "entry")
    /\ LET frame == Top(check_stack)
           item == frame.node[frame.i]
           next == [frame EXCEPT !.i = @ + 1]
       IN /\ frame.i <= Len(frame.node)
          /\ check_stack' =
               CASE item.k = "Table" ->
                      CallFrom(next, CheckCall("check_table_definition", item, Len(scopes)))
                 [] item.k = "Function" ->
                      CallFrom(next, CheckCall("check_function_like_body", item, Len(scopes)))
                 [] item.k = "Field" ->
                      CallFrom(next, CheckCall("check_top_level_field", item, Len(scopes)))
                 [] OTHER -> Resume(next)
    /\ UNCHANGED <<checked_program, scopes, scope_panic>>

\* check_program after the last item.
check_program_done ==
    /\ Checking("check_program", "entry")
    /\ Top(check_stack).i > Len(Top(check_stack).node)
    /\ check_stack' = ReturnFrom
    /\ UNCHANGED <<checked_program, scopes, scope_panic>>

\* check_top_level_field: the initialiser is checked first.
check_top_level_field ==
    /\ Checking("check_top_level_field", "entry")
    /\ LET frame == Top(check_stack)
           next == [frame EXCEPT !.pc = "define"]
       IN check_stack' =
            IF frame.node.init # None
            THEN CallFrom(next, CheckExpression(frame.node.init[1], Len(scopes)))
            ELSE ReturnFrom
    /\ UNCHANGED <<checked_program, scopes, scope_panic>>

\* check_top_level_field: the inferred type is recorded in the current
\* scope.
check_top_level_field_define ==
    /\ Checking("check_top_level_field", "define")
    /\ LET frame == Top(check_stack)
       IN scopes' = IF TypeOf(frame.node.init[1]) # "Error"
                    THEN define_symbol(scopes, frame.node.name)
                    ELSE scopes
    /\ check_stack' = ReturnFrom
    /\ UNCHANGED <<checked_program, scope_panic>>

\* check_table_definition: check_field_initializations first.
check_table_definition ==
    /\ Checking("check_table_definition", "entry")
    /\ LET frame == Top(check_stack)
       IN check_stack' =
            CallFrom([frame EXCEPT !.pc = "methods"],
                     CheckCall("check_field_initializations", frame.node.fields,
                               Len(scopes)))
    /\ UNCHANGED <<checked_program, scopes, scope_panic>>

\* check_field_initializations: a scope for the field's initialiser.
check_field_enter ==
    /\ Checking("check_field_initializations", "entry")
    /\ LET frame == Top(check_stack)
           field == frame.node[frame.i]
           next == [frame EXCEPT !.pc = "exit"]
       IN /\ frame.i <= Len(frame.node)
          /\ scopes' = enter_scope(scopes)
          /\ check_stack' =
               IF field.init # None
               THEN CallFrom(next, CheckExpression(field.init[1], Len(scopes')))
               ELSE Resume(next)
    /\ UNCHANGED <<checked_program, scope_panic>>

\* check_field_initializations: the field's scope is left.
check_field_exit ==
    /\ Checking("check_field_initializations", "exit")
    /\ ExitScope
    /\ check_stack' = Resume([Top(check_stack) EXCEPT !.pc = "entry", !.i = @ + 1])
    /\ UNCHANGED checked_program

\* check_field_initializations after the last field.
check_field_done ==
    /\ Checking("check_field_initializations", "entry")
    /\ Top(check_stack).i > Len(Top(check_stack).node)
    /\ check_stack' = ReturnFrom
    /\ UNCHANGED <<checked_program, scopes, scope_panic>>

\* check_table_definition: check_method_body for every method.
check_table_method ==
    /\ Checking("check_table_definition", "methods")
    /\ LET frame == Top(check_stack)
       IN /\ frame.i <= Len(frame.node.methods)
          /\ check_stack' =
               CallFrom([frame EXCEPT !.i = @ + 1],
                        CheckCall("check_method_body", frame.node.methods[frame.i],
                                  Len(scopes)))
    /\ UNCHANGED <<checked_program, scopes, scope_panic>>

\* check_table_definition after the last method.
check_table_done ==
    /\ Checking("check_table_definition", "methods")
    /\ Top(check_stack).i > Len(Top(check_stack).node.methods)
    /\ check_stack' = ReturnFrom
    /\ UNCHANGED <<checked_program, scopes, scope_panic>>

\* A body checker on a definition without a body returns at once;
\* otherwise it enters a scope, defines the names in `bound` and checks
\* the body with check_block.
EnterBody(bound) ==
    LET frame == Top(check_stack)
    IN IF frame.node.body = None
       THEN /\ check_stack' = ReturnFrom
            /\ UNCHANGED scopes
       ELSE /\ scopes' = [enter_scope(scopes) EXCEPT ![Len(scopes) + 1] = bound]
            /\ check_stack' =
                 CallFrom([frame EXCEPT !.pc = "exit"],
                          CheckCall("check_block", frame.node.body[1], Len(scopes')))

\* check_method_body: `self` and the parameters are defined in the scope.
check_method_body ==
    /\ Checking("check_method_body", "entry")
    /\ EnterBody({"self"} \cup {Top(check_stack).node.params[j] :
                                  j \in DOMAIN Top(check_stack).node.params})
    /\ UNCHANGED <<checked_program, scope_panic>>

\* check_method_body after the body.
check_method_body_exit ==
    /\ Checking("check_method_body", "exit")
    /\ ExitScope
    /\ check_stack' = ReturnFrom
    /\ UNCHANGED checked_program

\* check_function_like_body on a top-level function: the parameters.
check_function_like_body ==
    /\ Checking("check_function_like_body", "entry")
    /\ EnterBody({Top(check_stack).node.params[j] :
                    j \in DOMAIN Top(check_stack).node.params})
    /\ UNCHANGED <<checked_program, scope_panic>>

\* check_function_like_body after the body.
check_function_like_body_exit ==
    /\ Checking("check_function_like_body", "exit")
    /\ ExitScope
    /\ check_stack' = ReturnFrom
    /\ UNCHANGED checked_program

\* check_block: the statements one after another, in the caller's scope.
check_block ==
    /\ Checking("check_block", "entry")
    /\ LET frame == Top(check_stack)
       IN check_stack' =
            IF frame.i <= Len(frame.node)
            THEN CallFrom([frame EXCEPT !.i = @ + 1],
                          CheckExpression(frame.node[frame.i], Len(scopes)))
            ELSE ReturnFrom
    /\ UNCHANGED <<checked_program, scopes, scope_panic>>

\* check_expression on a literal or a `return`.
check_expression ==
    /\ Checking("check_expression", "entry")
    /\ check_stack' = ReturnFrom
    /\ UNCHANGED <<checked_program, scopes, scope_panic>>

\* check_block_expr: a scope for the block.
check_block_expr ==
    /\ Checking("check_block_expr", "entry")
    /\ scopes' = enter_scope(scopes)
    /\ check_stack' = Resume([Top(check_stack) EXCEPT !.pc = "statements"])
    /\ UNCHANGED <<checked_program, scope_panic>>

\* check_block_expr: the next statement.
check_block_expr_statement ==
    /\ Checking("check_block_expr", "statements")
    /\ LET frame == Top(check_stack)
       IN /\ frame.i <= Len(frame.node.statements)
          /\ check_stack' =
               CallFrom([frame EXCEPT !.i = @ + 1],
                        CheckExpression(frame.node.statements[frame.i], Len(scopes)))
    /\ UNCHANGED <<checked_program, scopes, scope_panic>>

\* check_block_expr after the last statement: the scope is left.
check_block_expr_exit ==
    /\ Checking("check_block_expr", "statements")
    /\ Top(check_stack).i > Len(Top(check_stack).node.statements)
    /\ ExitScope
    /\ check_stack' = ReturnFrom
    /\ UNCHANGED checked_program

\* check_if_expr: the condition.
check_if_expr ==
    /\ Checking("check_if_expr", "entry")
    /\ LET frame == Top(check_stack)
       IN check_stack' = CallFrom([frame EXCEPT !.pc = "then"],
                                  CheckExpression(frame.node.cond, Len(scopes)))
    /\ UNCHANGED <<checked_program, scopes, scope_panic>>

\* check_if_expr: the then block.
check_if_expr_then ==
    /\ Checking("check_if_expr", "then")
    /\ LET frame == Top(check_stack)
       IN check_stack' = CallFrom([frame EXCEPT !.pc = "else"],
                                  CheckBlockExpr(frame.node.then_block, Len(scopes)))
    /\ UNCHANGED <<checked_program, scopes, scope_panic>>

\* check_if_expr: the else block when there is one.
check_if_expr_else ==
    /\ Checking("check_if_expr", "else")
    /\ LET frame == Top(check_stack)
           next == [frame EXCEPT !.pc = "return"]
       IN check_stack' =
            IF frame.node.else_block # None
            THEN CallFrom(next, CheckBlockExpr(frame.node.else_block[1], Len(scopes)))
            ELSE Resume(next)
    /\ UNCHANGED <<checked_program, scopes, scope_panic>>

\* check_if_expr: every one of its returns comes after the blocks.
check_if_expr_return ==
    /\ Checking("check_if_expr", "return")
    /\ TypeOf(Top(check_stack).node) \in {"Int", "Unit", "Never", "Error"}
    /\ check_stack' = ReturnFrom
    /\ UNCHANGED <<checked_program, scopes, scope_panic>>

\* check_while_expr: the condition.
check_while_expr ==
    /\ Checking("check_while_expr", "entry")
    /\ LET frame == Top(check_stack)
       IN check_stack' = CallFrom([frame EXCEPT !.pc = "body"],
                                  CheckExpression(frame.node.cond, Len(scopes)))
    /\ UNCHANGED <<checked_program, scopes, scope_panic>>

\* check_while_expr: the body.
check_while_expr_body ==
    /\ Checking("check_while_expr", "body")
    /\ LET frame == Top(check_stack)
       IN check_stack' = CallFrom([frame EXCEPT !.pc = "return"],
                                  CheckBlockExpr(frame.node.body, Len(scopes)))
    /\ UNCHANGED <<checked_program, scopes, scope_panic>>

\* check_while_expr returns Unit.
check_while_expr_return ==
    /\ Checking("check_while_expr", "return")
    /\ check_stack' = ReturnFrom
    /\ UNCHANGED <<checked_program, scopes, scope_panic>>

\* check_for_expr: the iterable.
check_for_expr ==
    /\ Checking("check_for_expr", "entry")
    /\ LET frame == Top(check_stack)
       IN check_stack' = CallFrom([frame EXCEPT !.pc = "enter"],
                                  CheckExpression(frame.node.iterable, Len(scopes)))
    /\ UNCHANGED <<checked_program, scopes, scope_panic>>

\* check_for_expr: a scope for the iterator, then the body.
check_for_expr_enter ==
    /\ Checking("check_for_expr", "enter")
    /\ LET frame == Top(check_stack)
       IN /\ scopes' = define_symbol(enter_scope(scopes), frame.node.iterator)
          /\ check_stack' = CallFrom([frame EXCEPT !.pc = "exit"],
                                     CheckBlockExpr(frame.node.body, Len(scopes')))
    /\ UNCHANGED <<checked_program, scope_panic>>

\* check_for_expr: the iterator's scope is left.
check_for_expr_exit ==
    /\ Checking("check_for_expr", "exit")
    /\ ExitScope
    /\ check_stack' = ReturnFrom
    /\ UNCHANGED checked_program

ScopeNext ==
    \/ check_program_item /\ UNCHANGED notScope
    \/ check_program_done /\ UNCHANGED notScope
    \/ check_top_level_field /\ UNCHANGED notScope
    \/ check_top_level_field_define /\ UNCHANGED notScope
    \/ check_table_definition /\ UNCHANGED notScope
    \/ check_field_enter /\ UNCHANGED notScope
    \/ check_field_exit /\ UNCHANGED notScope
    \/ check_field_done /\ UNCHANGED notScope
    \/ check_table_method /\ UNCHANGED notScope
    \/ check_table_done /\ UNCHANGED notScope
    \/ check_method_body /\ UNCHANGED notScope
    \/ check_method_body_exit /\ UNCHANGED notScope
    \/ check_function_like_body /\ UNCHANGED notScope
    \/ check_function_like_body_exit /\ UNCHANGED notScope
    \/ check_block /\ UNCHANGED notScope
    \/ check_expression /\ UNCHANGED notScope
    \/ check_block_expr /\ UNCHANGED notScope
    \/ check_block_expr_statement /\ UNCHANGED notScope
    \/ check_block_expr_exit /\ UNCHANGED notScope
    \/ check_if_expr /\ UNCHANGED notScope
    \/ check_if_expr_then /\ UNCHANGED notScope
    \/ check_if_expr_else /\ UNCHANGED notScope
    \/ check_if_expr_return /\ UNCHANGED notScope
    \/ check_while_expr /\ UNCHANGED notScope
    \/ check_while_expr_body /\ UNCHANGED notScope
    \/ check_while_expr_return /\ UNCHANGED notScope
    \/ check_for_expr /\ UNCHANGED notScope
    \/ check_for_expr_enter /\ UNCHANGED notScope
    \/ check_for_expr_exit /\ UNCHANGED notScope

SpecScope == ScopeInit /\ [][ScopeNext]_vars

\* ---------------------------------------------------------------------
\* C40: scope entries and exits in the check pass are balanced: whenever
\* a checker returns (from a declaration, a method or function body, a
\* block, a loop or any other expression) the scope stack has the depth
\* it had when the checker was called, and exit_scope never runs with
\* only the global scope left, so it never panics.
C40_ScopesBalanced ==
    [][/\ (Len(check_stack') < Len(check_stack)
             => Len(scopes') = Top(check_stack).depth)
       /\ ~scope_panic'
       /\ Len(scopes') >= 2]_vars

\* A block that is the body of a `for` loop inside a function body has
\* checked its statements and is about to leave its scope: the function's,
\* the iterator's and the block's scopes lie above the two the pass began
\* with, and the loop that called it waits to leave its own.
C40_Witness ==
    /\ Checking("check_block_expr", "statements")
    /\ Top(check_stack).i > Len(Top(check_stack).node.statements)
    /\ Len(scopes) = 5
    /\ Len(scopes) = Top(check_stack).depth + 1
    /\ "i" \in scopes[4]
    /\ Len(check_stack) >= 4
    /\ check_stack[Len(check_stack) - 1].fn = "check_for_expr"
    /\ check_stack[Len(check_stack) - 1].pc = "exit"
    /\ check_stack[Len(check_stack) - 1].depth = 3
    /\ check_stack[2].fn = "check_function_like_body"
====
